---- MODULE Spec2Model ----
(***************************************************************************)
(* Authentication and session-lifecycle core of go_api_nosql: session     *)
(* manager, verification-code service, device resolver, credential signer *)
(* and the per-IP rate limiter.                                            *)
(*                                                                         *)
(* Every service method is one atomic action (one request at a time).     *)
(* The DynamoDB tables are modelled as sets of items; PutItem replaces    *)
(* the item with the same primary key, UpdateItem rewrites the named      *)
(* attributes, a GSI query returns the items carrying the key value.      *)
(* Index reads are taken to be consistent with the table.                 *)
(* id.New() and NewRefreshToken() draw from crypto/rand (80 and 256       *)
(* random bits): they are modelled as fresh values.  OTP codes (6 symbols)*)
(* are drawn from a small set and may repeat.                              *)
(* A collaborator call that can return an error is made to fail by the    *)
(* action's fault input flt, which names the failing call site.           *)
(***************************************************************************)
EXTENDS Integers, Sequences, FiniteSets, TLC

VARIABLES
  users,          \* users table: set of domain.User items
  sessions,       \* sessions table: set of domain.Session items
  devices,        \* devices table: set of domain.Device items
  verifications,  \* user_verifications table: set of domain.UserVerification items
  now,            \* wall clock, Unix seconds
  ticks,          \* number of clock advances so far (bounds the run)
  nextTok,        \* number of refresh tokens drawn so far from crypto/rand
  last,           \* the last call: its input and what it returned
  rotated,        \* history: refresh tokens presented to a Refresh that returned success
  spent,          \* history: Validate calls that succeeded with no Request for their code since
  resolved,       \* history: <<uuid, device_id>> of the devices Resolve calls returned
  limiters,       \* RateLimiter.limiters: ip -> bucket (a function on the known ips)
  rlNow,          \* monotonic clock of the limiter, milliseconds
  rlTicks,        \* number of limiter clock advances so far
  rlSweepAt,      \* the instant the cleanup goroutine's timer fires next
  rlLast,         \* the last request through Limit and its outcome
  rlRun,          \* history per ip: the requests its current bucket has seen
  calls,          \* per goroutine: the call it is in the middle of, with its local variables
  done,           \* history: what the calls made step by step returned
  mu,             \* RateLimiter.mu: the goroutines holding it
  ctx             \* the context given to NewRateLimiter: TRUE once it is cancelled

vars == <<users, sessions, devices, verifications, now, ticks, nextTok, last,
          rotated, spent, resolved, limiters, rlNow, rlTicks, rlSweepAt, rlLast, rlRun,
          calls, done, mu, ctx>>

authVars == <<users, sessions, devices, verifications, now, ticks, nextTok, last,
              rotated, spent, resolved>>
rlVars == <<limiters, rlNow, rlTicks, rlSweepAt, rlLast, rlRun>>
callVars == <<calls, done, mu, ctx>>

----------------------------------------------------------------------------
(* Bounds of the model *)
MaxUsers == 2
MaxSessions == 2
MaxDevices == 2
MaxTokens == 3
MaxTicks == 2
MaxRlTicks == 3
MaxRequests == 12

(* Requests are served by goroutines: two of them are enough for every *)
(* interleaving of two calls                                            *)
Goroutines == {1, 2}
(* the cleanup goroutine NewRateLimiter starts *)
Sweeper == 0
Workers == Goroutines \cup {Sweeper}
Idle == [pc |-> "idle"]
(* an entry of done: the result goroutine g returned *)
Returned(g, res) == [g |-> g, res |-> res]

(* Program constants *)
RefreshTokenExpiryDays == 30
JWTExpiryDays == 7
OTPTTL == 900
EmailTTL == 86400
RatePerSec == 5
Burst == 10
CleanupPeriod == 300000
IdleTimeout == 600000

refreshTokenDur == RefreshTokenExpiryDays * 24 * 3600

(* Input domains *)
Usernames == {"alice", "al@x.io"}
Emails == {"al@x.io", "bo@x.io"}
Passwords == {"pw1", "pw2"}
Codes == {"AAAAAA", "BBBBBB"}
ClientUUIDs == {<<"client", 1>>}
NilUUID == <<"nil", 0>>
NoId == 0
NoToken == 0
NoPhone == ""
NoEmail == ""
Phones == {"+15550100"}

(* domain sentinel errors: their Error() text *)
ErrNone == ""
ErrNotFound == "not found"
ErrConflict == "conflict"
ErrUnauthorized == "unauthorized"
ErrBadRequest == "bad request"
ErrInternal == "collaborator failure"
(* UserRepo.Get and queryGSI report a missing item with errors.New: a plain *)
(* error that wraps no sentinel, so errors.Is(err, ErrNotFound) is false    *)
ErrUserNotFound == "user not found"
ErrDeviceQuery == "device query failure"

RoleUser == "User"
RoleAdmin == "Admin"

----------------------------------------------------------------------------
(* Credential signer *)

NoBearer ==
  [user_id |-> NoId, device_id |-> NoId, role_id |-> "", session_id |-> NoId,
   iat |-> 0, exp |-> 0, alg |-> "none", key |-> "none"]

Sign(userID, deviceID, roleID, sessionID, t) ==
  [user_id |-> userID, device_id |-> deviceID, role_id |-> roleID,
   session_id |-> sessionID,
   iat |-> t, exp |-> t + JWTExpiryDays * 24 * 3600,
   alg |-> "RS256", key |-> "process"]

NoClaims == [ok |-> FALSE, user_id |-> NoId, device_id |-> NoId, role_id |-> "",
             session_id |-> NoId]

Verify_IgnoresExpiry(tok, t) ==
  IF tok.alg \in {"RS256", "RS384", "RS512"} /\ tok.key = "process"
    THEN [ok |-> TRUE, user_id |-> tok.user_id, device_id |-> tok.device_id,
          role_id |-> tok.role_id, session_id |-> tok.session_id]
    ELSE NoClaims

Verify(tok, t) ==
  IF tok.alg \in {"RS256", "RS384", "RS512"} /\ tok.key = "process" /\ t < tok.exp
    THEN [ok |-> TRUE, user_id |-> tok.user_id, device_id |-> tok.device_id,
          role_id |-> tok.role_id, session_id |-> tok.session_id]
    ELSE NoClaims

(* The claims travel as JSON strings inside the token: a quotation mark *)
(* and a backslash are escaped by the encoder and restored by the parser. *)
RECURSIVE jsonEscape(_)
jsonEscape(chars) ==
  IF chars = <<>> THEN <<>>
  ELSE (IF Head(chars) \in {"\"", "\\"} THEN <<"\\", Head(chars)>> ELSE <<Head(chars)>>)
         \o jsonEscape(Tail(chars))

RECURSIVE jsonUnescape(_)
jsonUnescape(chars) ==
  IF chars = <<>> THEN <<>>
  ELSE IF Head(chars) = "\\" /\ Len(chars) >= 2
    THEN <<chars[2]>> \o jsonUnescape(Tail(Tail(chars)))
    ELSE <<Head(chars)>> \o jsonUnescape(Tail(chars))

jsonMarshal(chars) == <<"\"">> \o jsonEscape(chars) \o <<"\"">>
jsonUnmarshal(chars) == jsonUnescape(SubSeq(chars, 2, Len(chars) - 1))

(* token.SignedString: the token Sign issues for string-valued claims *)
SignedString(userID, deviceID, roleID, sessionID, t) ==
  Sign(jsonMarshal(userID), jsonMarshal(deviceID), jsonMarshal(roleID),
       jsonMarshal(sessionID), t)

(* jwt.ParseWithClaims: the claims of a token Verify accepts, decoded *)
ParseWithClaims(tok, t) ==
  LET c == Verify(tok, t)
  IN IF c.ok
       THEN [ok |-> TRUE, user_id |-> jsonUnmarshal(c.user_id),
             device_id |-> jsonUnmarshal(c.device_id),
             role_id |-> jsonUnmarshal(c.role_id),
             session_id |-> jsonUnmarshal(c.session_id)]
       ELSE NoClaims

(* a string that does not parse as a token *)
MalformedToken == [NoBearer EXCEPT !.alg = "", !.key = ""]

(* what a caller may present in place of the token tok it was issued *)
TokenKinds == {"signed", "malformed", "otherKey", "HS256", "none", "ES256"}
Present(kind, tok) ==
  CASE kind = "signed" -> tok
    [] kind = "malformed" -> MalformedToken
    [] kind = "otherKey" -> [tok EXCEPT !.key = "other"]
    [] OTHER -> [tok EXCEPT !.alg = kind]

----------------------------------------------------------------------------
(* Password hashing: bcrypt.  A hash verifies exactly the password it was *)
(* generated from; the empty hash of a password-less account verifies none. *)
GenerateFromPassword(pw) == <<"bcrypt", pw>>
NoPasswordHash == <<"", "">>
CompareHashAndPassword(hash, pw) == hash[1] = "bcrypt" /\ hash[2] = pw

----------------------------------------------------------------------------
(* Stores *)

(* A user item unmarshals into domain.User when its enable attribute is a *)
(* number: Enable is an int, and a BOOL attribute does not decode into it. *)
(* A lookup answers with the users it can return, NoUser standing for a    *)
(* returned error (no item, or the item picked does not unmarshal); a GSI  *)
(* query reads one of the items carrying the key value.                    *)
NoUser ==
  [user_id |-> NoId, username |-> "", email |-> "", phone |-> NoPhone,
   password_hash |-> NoPasswordHash, role |-> "", enable |-> 0, enable_av |-> "",
   email_confirmed |-> FALSE, phone_confirmed |-> FALSE, google_sub |-> "",
   auth_provider |-> ""]

UnmarshalUser(items) ==
  IF items = {} THEN {NoUser}
  ELSE {IF u.enable_av = "N" THEN u ELSE NoUser : u \in items}

(* the error a lookup returns along with the result r it yields from items *)
UserLookupError(items, r) ==
  IF r # NoUser THEN ErrNone
  ELSE IF items = {} THEN ErrUserNotFound
  ELSE ErrInternal

UserGetByUsername(name) == UnmarshalUser({u \in users : u.username = name})
UserGetByEmail(email) == UnmarshalUser({u \in users : u.email = email})
UserGet(userID) == UnmarshalUser({u \in users : u.user_id = userID})

(* Update of the enable attribute with the number an UpdateUserRequest carries *)
UserUpdateEnable(userID, e) ==
  {IF u.user_id = userID THEN [u EXCEPT !.enable = e, !.enable_av = "N"] ELSE u
   : u \in users}

(* SoftDelete writes the boolean false into the enable attribute *)
UserSoftDelete(userID) ==
  {IF u.user_id = userID THEN [u EXCEPT !.enable = 0, !.enable_av = "BOOL"] ELSE u
   : u \in users}

SessionGet(sessionID) == {s \in sessions : s.session_id = sessionID}
SessionGetByRefreshToken(tok) == {s \in sessions : s.refresh_token = tok}

SessionPut(s) == {x \in sessions : x.session_id # s.session_id} \cup {s}

SessionUpdateEnable_Removes(sessionID, e) ==
  {s \in sessions : s.session_id # sessionID}

SessionUpdateEnable(sessionID, e) ==
  {IF s.session_id = sessionID THEN [s EXCEPT !.enable = e] ELSE s : s \in sessions}

RotateRefreshToken_KeepsToken(sessionID, newToken, newExpiry) ==
  {IF s.session_id = sessionID
     THEN [s EXCEPT !.refresh_expires_at = newExpiry]
     ELSE s : s \in sessions}

RotateRefreshToken(sessionID, newToken, newExpiry) ==
  {IF s.session_id = sessionID
     THEN [s EXCEPT !.refresh_token = newToken, !.refresh_expires_at = newExpiry]
     ELSE s : s \in sessions}

DeviceGetByUUID(uuid) == {d \in devices : d.uuid = uuid}
DevicePut(d) == {x \in devices : x.device_id # d.device_id} \cup {d}

(* UserRepo.Put: PutItem keyed by user_id, without a condition *)
UserPut(u) == {x \in users : x.user_id # u.user_id} \cup {u}

(* id.New(): items are never removed, so the count of a table names a fresh id *)
NewUserId == Cardinality(users) + 1
NewSessionId_Reused == IF sessions = {} THEN 1 ELSE Cardinality(sessions)
NewSessionId == Cardinality(sessions) + 1
NewDeviceId == Cardinality(devices) + 1
NewRefreshToken == nextTok + 1

----------------------------------------------------------------------------
(* Results returned to the caller *)

ErrorText(msg, err) == IF msg = "" THEN err ELSE msg \o ": " \o err

NoHttp == [status |-> 0, body |-> ""]
writeError(status, text) == [status |-> status, body |-> text]

httpError(msg, err) ==
  IF err = ErrNotFound THEN writeError(404, ErrorText(msg, err))
  ELSE IF err = ErrConflict THEN writeError(409, ErrorText(msg, err))
  ELSE IF err = ErrUnauthorized THEN writeError(401, ErrorText(msg, err))
  ELSE IF err = ErrBadRequest THEN writeError(400, ErrorText(msg, err))
  ELSE writeError(500, "internal server error")

(* what each handler writes for a service error (and, for the two *)
(* confirmation handlers, for success)                             *)
LoginHttp(msg, err) == writeError(401, ErrorText(msg, err))
RefreshHttp(msg, err) == writeError(401, ErrorText(msg, err))
EmailConfirmHttp(msg, err) ==
  IF err = ErrNone THEN writeError(200, "") ELSE writeError(401, ErrorText(msg, err))
PhoneConfirmHttp(msg, err) == NoHttp

HandlerHttp(handler, msg, err) ==
  CASE handler = "SessionHandler.Login" -> LoginHttp(msg, err)
    [] handler = "SessionHandler.Refresh" -> RefreshHttp(msg, err)
    [] handler = "EmailConfirmHandler" -> EmailConfirmHttp(msg, err)
    [] handler = "PhoneConfirmHandler" -> PhoneConfirmHttp(msg, err)
    [] handler = "SessionHandler.GoogleLogin" -> NoHttp
    [] OTHER -> httpError(msg, err)

NoDevice == [device_id |-> NoId, uuid |-> NilUUID, user_id |-> NoId, enable |-> FALSE]

Failure(op, in, msg, err, http) ==
  [op |-> op, in |-> in, err |-> err, msg |-> msg, http |-> http,
   bearer |-> NoBearer, refresh |-> NoToken,
   session_id |-> NoId, user_id |-> NoId, device_id |-> NoId]

Success(op, in, http, bearer, refresh, sid, uid, did) ==
  [op |-> op, in |-> in, err |-> ErrNone, msg |-> "", http |-> http,
   bearer |-> bearer, refresh |-> refresh,
   session_id |-> sid, user_id |-> uid, device_id |-> did]

(* what a call leaves behind: its result and the tables it wrote *)
Outcome(res, us, ss, ds, vs, tk) ==
  [last |-> res, users |-> us, sessions |-> ss, devices |-> ds,
   verifications |-> vs, nextTok |-> tk]

Unchanged(res) == Outcome(res, users, sessions, devices, verifications, nextTok)

Apply(o) ==
  /\ last' = o.last
  /\ users' = o.users
  /\ sessions' = o.sessions
  /\ devices' = o.devices
  /\ verifications' = o.verifications
  /\ nextTok' = o.nextTok
  /\ Cardinality(o.users) <= MaxUsers
  /\ Cardinality(o.sessions) <= MaxSessions
  /\ Cardinality(o.devices) <= MaxDevices
  /\ o.nextTok <= MaxTokens

----------------------------------------------------------------------------
(* Device resolver: the set of results Resolve can return, each with the  *)
(* devices table it leaves.  flt = "deviceGet" makes GetByUUID fail with  *)
(* an error other than not-found, flt = "devicePut" makes Put fail.       *)

Resolve_IgnoresLookupError(deviceUUID, userID, flt) ==
  LET found == IF deviceUUID # NilUUID /\ flt # "deviceGet"
                 THEN DeviceGetByUUID(deviceUUID) ELSE {}
      devUUID == IF deviceUUID # NilUUID THEN deviceUUID ELSE <<"gen", NewDeviceId>>
      d == [device_id |-> NewDeviceId, uuid |-> devUUID, user_id |-> userID,
            enable |-> TRUE]
  IN IF found # {}
       THEN {[err |-> ErrNone, dev |-> x, devs |-> devices] : x \in found}
       ELSE IF flt = "devicePut"
         THEN {[err |-> ErrInternal, dev |-> NoDevice, devs |-> devices]}
         ELSE {[err |-> ErrNone, dev |-> d, devs |-> DevicePut(d)]}

Resolve_AlwaysCreates(deviceUUID, userID, flt) ==
  LET devUUID == IF deviceUUID # NilUUID THEN deviceUUID ELSE <<"gen", NewDeviceId>>
      d == [device_id |-> NewDeviceId, uuid |-> devUUID, user_id |-> userID,
            enable |-> TRUE]
  IN IF deviceUUID # NilUUID /\ flt = "deviceGet"
       THEN {[err |-> ErrDeviceQuery, dev |-> NoDevice, devs |-> devices]}
       ELSE IF flt = "devicePut"
         THEN {[err |-> ErrInternal, dev |-> NoDevice, devs |-> devices]}
         ELSE {[err |-> ErrNone, dev |-> d, devs |-> DevicePut(d)]}

Resolve(deviceUUID, userID, flt) ==
  LET found == IF deviceUUID # NilUUID THEN DeviceGetByUUID(deviceUUID) ELSE {}
      devUUID == IF deviceUUID # NilUUID THEN deviceUUID ELSE <<"gen", NewDeviceId>>
      d == [device_id |-> NewDeviceId, uuid |-> devUUID, user_id |-> userID,
            enable |-> TRUE]
  IN IF deviceUUID # NilUUID /\ flt = "deviceGet"
       THEN {[err |-> ErrDeviceQuery, dev |-> NoDevice, devs |-> devices]}
       ELSE IF found # {}
         THEN {[err |-> ErrNone, dev |-> x, devs |-> devices] : x \in found}
         ELSE IF flt = "devicePut"
           THEN {[err |-> ErrInternal, dev |-> NoDevice, devs |-> devices]}
           ELSE {[err |-> ErrNone, dev |-> d, devs |-> DevicePut(d)]}


(* a request handler's call of Resolve, taken on its own *)
ResolveDevice(deviceUUID, userID, flt) ==
  /\ \E r \in Resolve(deviceUUID, userID, flt) :
       /\ Apply(Outcome(IF r.err # ErrNone
                          THEN Failure("Resolve", <<deviceUUID, userID>>, "", r.err, NoHttp)
                          ELSE Success("Resolve", <<deviceUUID, userID>>, NoHttp, NoBearer,
                                       NoToken, NoId, userID, r.dev.device_id),
                        users, sessions, r.devs, verifications, nextTok))
       /\ resolved' = IF r.err = ErrNone
                        THEN resolved \cup {<<r.dev.uuid, r.dev.device_id>>}
                        ELSE resolved
  /\ UNCHANGED <<now, ticks, rotated, spent>>
  /\ UNCHANGED <<rlVars, callVars>>

(* Resolve step by step: GetByUUID, which returns the device it finds, *)
(* then the Put of the device built for the caller's user              *)
ResolveLookup(g, deviceUUID, userID) ==
  /\ calls[g] = Idle
  /\ LET in == <<deviceUUID, userID>>
         found == IF deviceUUID # NilUUID THEN DeviceGetByUUID(deviceUUID) ELSE {}
     IN IF found # {}
          THEN /\ \E x \in found :
                    /\ last' = Success("Resolve", in, NoHttp, NoBearer, NoToken, NoId, userID,
                                       x.device_id)
                    /\ resolved' = resolved \cup {<<x.uuid, x.device_id>>}
               /\ done' = done \cup {Returned(g, last')}
               /\ UNCHANGED calls
          ELSE /\ calls' = [calls EXCEPT ![g] =
                              [pc |-> "put", op |-> "Resolve", in |-> in]]
               /\ UNCHANGED <<last, done, resolved>>
  /\ UNCHANGED <<users, sessions, devices, verifications, now, ticks, nextTok, rotated, spent>>
  /\ UNCHANGED <<rlVars, mu, ctx>>

ResolvePut(g) ==
  /\ calls[g] # Idle
  /\ calls[g].op = "Resolve"
  /\ calls[g].pc = "put"
  /\ LET c == calls[g]
         devUUID == IF c.in[1] # NilUUID THEN c.in[1] ELSE <<"gen", NewDeviceId>>
         d == [device_id |-> NewDeviceId, uuid |-> devUUID, user_id |-> c.in[2],
               enable |-> TRUE]
     IN /\ devices' = DevicePut(d)
        /\ last' = Success("Resolve", c.in, NoHttp, NoBearer, NoToken, NoId, c.in[2],
                           d.device_id)
        /\ resolved' = resolved \cup {<<d.uuid, d.device_id>>}
        /\ done' = done \cup {Returned(g, last')}
  /\ calls' = [calls EXCEPT ![g] = Idle]
  /\ UNCHANGED <<users, sessions, verifications, now, ticks, nextTok, rotated, spent>>
  /\ UNCHANGED <<rlVars, mu, ctx>>

DeviceSoftDelete(deviceID) ==
  /\ deviceID \in {d.device_id : d \in devices}
  /\ devices' = {IF d.device_id = deviceID THEN [d EXCEPT !.enable = FALSE] ELSE d
                 : d \in devices}
  /\ last' = Success("DeviceSoftDelete", <<deviceID>>, writeError(200, ""), NoBearer,
                     NoToken, NoId, NoId, deviceID)
  /\ UNCHANGED <<users, sessions, verifications, now, ticks, nextTok, rotated, spent,
                 resolved>>
  /\ UNCHANGED <<rlVars, callVars>>

----------------------------------------------------------------------------
(* Session manager *)

NewSession(sid, u, dev, tok, t) ==
  [session_id |-> sid, user_id |-> u.user_id, device_id |-> dev.device_id,
   enable |-> TRUE, refresh_token |-> tok,
   refresh_expires_at |-> t + refreshTokenDur]

(* The tail shared by Login, ValidateOTP and RegisterWithSession once the *)
(* user u is authenticated: resolve the device, draw a refresh token, put *)
(* the session, sign the bearer.  fail(msg, err) and ok(...) render the    *)
(* caller's own result.                                                    *)
MintSession(op, in, u, us, vs, flt, okStatus, handler, uuid) ==
  UNION {
    IF r.err # ErrNone
      THEN {Outcome(Failure(op, in, "", r.err, HandlerHttp(handler, "", r.err)),
                    us, sessions, r.devs, vs, nextTok)}
    ELSE IF flt = "newRefreshToken"
      THEN {Outcome(Failure(op, in, "", ErrInternal, HandlerHttp(handler, "", ErrInternal)),
                    us, sessions, r.devs, vs, nextTok)}
    ELSE LET tok == NewRefreshToken
             sess == NewSession(NewSessionId, u, r.dev, tok, now)
         IN IF flt = "sessionPut"
              THEN {Outcome(Failure(op, in, "", ErrInternal, HandlerHttp(handler, "", ErrInternal)),
                            us, sessions, r.devs, vs, tok)}
            ELSE IF flt = "sign"
              THEN {Outcome(Failure(op, in, "", ErrInternal, HandlerHttp(handler, "", ErrInternal)),
                            us, SessionPut(sess), r.devs, vs, tok)}
            ELSE {Outcome(Success(op, in, writeError(okStatus, ""),
                                  Sign(u.user_id, r.dev.device_id, u.role, sess.session_id, now),
                                  tok, sess.session_id, u.user_id, r.dev.device_id),
                          us, SessionPut(sess), r.devs, vs, tok)}
    : r \in Resolve(uuid, u.user_id, flt) }


LoginFaults == {"none", "getByUsername", "getByEmail", "deviceGet", "devicePut",
                "newRefreshToken", "sessionPut", "sign"}

LoginUser_SkipsEnableCheck(in, u, pw, uuid, flt) ==
  IF ~CompareHashAndPassword(u.password_hash, pw)
    THEN {Unchanged(Failure("Login", in, "invalid credentials", ErrUnauthorized,
                            LoginHttp("invalid credentials", ErrUnauthorized)))}
  ELSE MintSession("Login", in, u, users, verifications, flt, 200, "SessionHandler.Login", uuid)

LoginUser(in, u, pw, uuid, flt) ==
  IF u.enable = 0
    THEN {Unchanged(Failure("Login", in, "account disabled", ErrUnauthorized,
                            LoginHttp("account disabled", ErrUnauthorized)))}
  ELSE IF ~CompareHashAndPassword(u.password_hash, pw)
    THEN {Unchanged(Failure("Login", in, "invalid credentials", ErrUnauthorized,
                            LoginHttp("invalid credentials", ErrUnauthorized)))}
  ELSE MintSession("Login", in, u, users, verifications, flt, 200, "SessionHandler.Login", uuid)

LoginOutcomes(ident, pw, uuid, flt) ==
  LET in == <<ident, pw>>
      byName == IF flt = "getByUsername" THEN {NoUser} ELSE UserGetByUsername(ident)
      byMail == IF flt = "getByEmail" THEN {NoUser} ELSE UserGetByEmail(ident)
      found == (byName \ {NoUser}) \cup (IF NoUser \in byName THEN byMail ELSE {})
  IN UNION {IF u = NoUser
              THEN {Unchanged(Failure("Login", in, "invalid credentials", ErrUnauthorized,
                                      LoginHttp("invalid credentials", ErrUnauthorized)))}
              ELSE LoginUser(in, u, pw, uuid, flt)
            : u \in found}

Login(ident, pw, uuid, flt) ==
  /\ \E o \in LoginOutcomes(ident, pw, uuid, flt) : Apply(o)
  /\ UNCHANGED <<now, ticks, rotated, spent, resolved>>
  /\ UNCHANGED <<rlVars, callVars>>


RefreshFaults == {"none", "getByRefreshToken", "newRefreshToken", "rotate",
                  "userGet", "sign"}

RefreshSession_IgnoresExpiry(in, sess, flt) ==
  IF ~sess.enable
    THEN {Unchanged(Failure("Refresh", in, "invalid or expired refresh token",
                            ErrUnauthorized,
                            RefreshHttp("invalid or expired refresh token", ErrUnauthorized)))}
  ELSE IF FALSE
    THEN {Unchanged(Failure("Refresh", in, "refresh token expired", ErrUnauthorized,
                            RefreshHttp("refresh token expired", ErrUnauthorized)))}
  ELSE IF flt = "newRefreshToken"
    THEN {Unchanged(Failure("Refresh", in, "", ErrInternal, RefreshHttp("", ErrInternal)))}
  ELSE LET newToken == NewRefreshToken
           newExpiry == now + refreshTokenDur
           rot == RotateRefreshToken(sess.session_id, newToken, newExpiry)
           us == IF flt = "userGet" THEN {NoUser} ELSE UserGet(sess.user_id)
       IN IF flt = "rotate"
            THEN {Outcome(Failure("Refresh", in, "", ErrInternal, RefreshHttp("", ErrInternal)),
                          users, sessions, devices, verifications, newToken)}
          ELSE {IF u = NoUser \/ flt = "sign"
                  THEN Outcome(Failure("Refresh", in, "", ErrInternal,
                                       RefreshHttp("", ErrInternal)),
                               users, rot, devices, verifications, newToken)
                  ELSE Outcome(Success("Refresh", in, writeError(200, ""),
                                       Sign(u.user_id, sess.device_id, u.role,
                                            sess.session_id, now),
                                       newToken, sess.session_id, u.user_id, sess.device_id),
                               users, rot, devices, verifications, newToken)
                : u \in us}

RefreshSession_SignsDefaultRole(in, sess, flt) ==
  IF ~sess.enable
    THEN {Unchanged(Failure("Refresh", in, "invalid or expired refresh token",
                            ErrUnauthorized,
                            RefreshHttp("invalid or expired refresh token", ErrUnauthorized)))}
  ELSE IF sess.refresh_expires_at < now
    THEN {Unchanged(Failure("Refresh", in, "refresh token expired", ErrUnauthorized,
                            RefreshHttp("refresh token expired", ErrUnauthorized)))}
  ELSE IF flt = "newRefreshToken"
    THEN {Unchanged(Failure("Refresh", in, "", ErrInternal, RefreshHttp("", ErrInternal)))}
  ELSE LET newToken == NewRefreshToken
           newExpiry == now + refreshTokenDur
           rot == RotateRefreshToken(sess.session_id, newToken, newExpiry)
           us == IF flt = "userGet" THEN {NoUser} ELSE UserGet(sess.user_id)
       IN IF flt = "rotate"
            THEN {Outcome(Failure("Refresh", in, "", ErrInternal, RefreshHttp("", ErrInternal)),
                          users, sessions, devices, verifications, newToken)}
          ELSE {IF u = NoUser \/ flt = "sign"
                  THEN Outcome(Failure("Refresh", in, "", ErrInternal,
                                       RefreshHttp("", ErrInternal)),
                               users, rot, devices, verifications, newToken)
                  ELSE Outcome(Success("Refresh", in, writeError(200, ""),
                                       Sign(u.user_id, sess.device_id, RoleUser,
                                            sess.session_id, now),
                                       newToken, sess.session_id, u.user_id, sess.device_id),
                               users, rot, devices, verifications, newToken)
                : u \in us}

RefreshSession(in, sess, flt) ==
  IF ~sess.enable
    THEN {Unchanged(Failure("Refresh", in, "invalid or expired refresh token",
                            ErrUnauthorized,
                            RefreshHttp("invalid or expired refresh token", ErrUnauthorized)))}
  ELSE IF sess.refresh_expires_at < now
    THEN {Unchanged(Failure("Refresh", in, "refresh token expired", ErrUnauthorized,
                            RefreshHttp("refresh token expired", ErrUnauthorized)))}
  ELSE IF flt = "newRefreshToken"
    THEN {Unchanged(Failure("Refresh", in, "", ErrInternal, RefreshHttp("", ErrInternal)))}
  ELSE LET newToken == NewRefreshToken
           newExpiry == now + refreshTokenDur
           rot == RotateRefreshToken(sess.session_id, newToken, newExpiry)
           us == IF flt = "userGet" THEN {NoUser} ELSE UserGet(sess.user_id)
       IN IF flt = "rotate"
            THEN {Outcome(Failure("Refresh", in, "", ErrInternal, RefreshHttp("", ErrInternal)),
                          users, sessions, devices, verifications, newToken)}
          ELSE {IF u = NoUser \/ flt = "sign"
                  THEN Outcome(Failure("Refresh", in, "", ErrInternal,
                                       RefreshHttp("", ErrInternal)),
                               users, rot, devices, verifications, newToken)
                  ELSE Outcome(Success("Refresh", in, writeError(200, ""),
                                       Sign(u.user_id, sess.device_id, u.role,
                                            sess.session_id, now),
                                       newToken, sess.session_id, u.user_id, sess.device_id),
                               users, rot, devices, verifications, newToken)
                : u \in us}

RefreshOutcomes(refreshToken, flt) ==
  LET in == <<refreshToken>>
      found == IF flt = "getByRefreshToken" THEN {}
               ELSE SessionGetByRefreshToken(refreshToken)
  IN IF found = {}
       THEN {Unchanged(Failure("Refresh", in, "invalid or expired refresh token",
                               ErrUnauthorized,
                               RefreshHttp("invalid or expired refresh token", ErrUnauthorized)))}
       ELSE UNION {RefreshSession(in, sess, flt) : sess \in found}

Refresh(refreshToken, flt) ==
  /\ \E o \in RefreshOutcomes(refreshToken, flt) :
        /\ Apply(o)
        /\ rotated' = IF o.last.err = ErrNone THEN rotated \cup {refreshToken} ELSE rotated
  /\ UNCHANGED <<now, ticks, spent, resolved>>
  /\ UNCHANGED <<rlVars, callVars>>

(* Refresh as the goroutine serving it runs it: one step per repository   *)
(* call, so that the steps of two calls interleave. Nothing but the      *)
(* sessions table connects the two calls.                                 *)
RefreshRejected(in, msg) ==
  Failure("Refresh", in, msg, ErrUnauthorized, RefreshHttp(msg, ErrUnauthorized))

(* sessionRepo.GetByRefreshToken and the expiry check *)
RefreshLookup(g, refreshToken) ==
  /\ calls[g] = Idle
  /\ LET in == <<refreshToken>>
         found == SessionGetByRefreshToken(refreshToken)
     IN \/ /\ found = {} \/ \E sess \in found : ~sess.enable
           /\ last' = RefreshRejected(in, "invalid or expired refresh token")
           /\ done' = done \cup {Returned(g, last')}
           /\ UNCHANGED calls
        \/ \E sess \in found :
             /\ sess.enable
             /\ IF sess.refresh_expires_at < now
                  THEN /\ last' = RefreshRejected(in, "refresh token expired")
                       /\ done' = done \cup {Returned(g, last')}
                       /\ UNCHANGED calls
                  ELSE /\ calls' = [calls EXCEPT ![g] =
                                      [pc |-> "rotate", op |-> "Refresh", in |-> in,
                                       sess |-> sess, newToken |-> NoToken]]
                       /\ UNCHANGED <<last, done>>
  /\ UNCHANGED <<users, sessions, devices, verifications, now, ticks, nextTok, rotated,
                 spent, resolved>>
  /\ UNCHANGED <<rlVars, mu, ctx>>

(* the write of a rotation that would apply only to the token the call read *)
RefreshWrite_IfUnrotated(c, newToken) ==
  IF \E s \in sessions : s.session_id = c.sess.session_id /\ s.refresh_token = c.in[1]
    THEN RotateRefreshToken(c.sess.session_id, newToken, now + refreshTokenDur)
    ELSE sessions

RefreshWrite(c, newToken) ==
  RotateRefreshToken(c.sess.session_id, newToken, now + refreshTokenDur)

(* pkgtoken.NewRefreshToken and sessionRepo.RotateRefreshToken *)
RefreshRotate(g) ==
  /\ calls[g].pc = "rotate"
  /\ LET newToken == NewRefreshToken
     IN /\ sessions' = RefreshWrite(calls[g], newToken)
        /\ nextTok' = newToken
        /\ calls' = [calls EXCEPT ![g] = [@ EXCEPT !.pc = "sign", !.newToken = newToken]]
  /\ UNCHANGED <<users, devices, verifications, now, ticks, last, rotated, spent, resolved,
                 done>>
  /\ UNCHANGED <<rlVars, mu, ctx>>

(* userRepo.Get, jwtProvider.Sign and the return *)
RefreshSign(g) ==
  /\ calls[g].pc = "sign"
  /\ LET c == calls[g]
     IN \E u \in UserGet(c.sess.user_id) :
          /\ last' = IF u = NoUser
                       THEN Failure("Refresh", c.in, "", ErrInternal,
                                    RefreshHttp("", ErrInternal))
                       ELSE Success("Refresh", c.in, writeError(200, ""),
                                    Sign(u.user_id, c.sess.device_id, u.role,
                                         c.sess.session_id, now),
                                    c.newToken, c.sess.session_id, u.user_id,
                                    c.sess.device_id)
          /\ rotated' = IF u = NoUser THEN rotated ELSE rotated \cup {c.in[1]}
  /\ done' = done \cup {Returned(g, last')}
  /\ calls' = [calls EXCEPT ![g] = Idle]
  /\ UNCHANGED <<users, sessions, devices, verifications, now, ticks, nextTok, spent,
                 resolved>>
  /\ UNCHANGED <<rlVars, mu, ctx>>

(* Login step by step: the lookup with the enable and password checks, *)
(* then the minting of the session for the user that was read          *)
LoginFetch(g, ident, pw, uuid) ==
  /\ calls[g] = Idle
  /\ LET in == <<ident, pw>>
         byName == UserGetByUsername(ident)
         found == (byName \ {NoUser}) \cup (IF NoUser \in byName THEN UserGetByEmail(ident)
                                             ELSE {})
         reject(msg) ==
           /\ last' = Failure("Login", in, msg, ErrUnauthorized, LoginHttp(msg, ErrUnauthorized))
           /\ done' = done \cup {Returned(g, last')}
           /\ UNCHANGED calls
     IN \E u \in found :
          IF u = NoUser THEN reject("invalid credentials")
          ELSE IF u.enable = 0 THEN reject("account disabled")
          ELSE IF ~CompareHashAndPassword(u.password_hash, pw)
            THEN reject("invalid credentials")
          ELSE /\ calls' = [calls EXCEPT ![g] =
                              [pc |-> "mint", op |-> "Login", in |-> in, u |-> u,
                               uuid |-> uuid]]
               /\ UNCHANGED <<last, done>>
  /\ UNCHANGED <<users, sessions, devices, verifications, now, ticks, nextTok, rotated,
                 spent, resolved>>
  /\ UNCHANGED <<rlVars, mu, ctx>>

(* device.Resolve, NewRefreshToken, sessionRepo.Put, Sign and the return *)
LoginMint(g) ==
  /\ calls[g] # Idle
  /\ calls[g].op = "Login"
  /\ calls[g].pc = "mint"
  /\ LET c == calls[g]
     IN \E o \in MintSession("Login", c.in, c.u, users, verifications, "none", 200,
                              "SessionHandler.Login", c.uuid) :
          /\ Apply(o)
          /\ done' = done \cup {Returned(g, o.last)}
  /\ calls' = [calls EXCEPT ![g] = Idle]
  /\ UNCHANGED <<now, ticks, rotated, spent, resolved>>
  /\ UNCHANGED <<rlVars, mu, ctx>>

LogoutFaults == {"none", "update"}

Logout(sessionID, flt) ==
  /\ sessionID \in {s.session_id : s \in sessions}
  /\ IF flt = "update"
       THEN Apply(Unchanged(Failure("Logout", <<sessionID>>, "", ErrInternal,
                                    writeError(500, ErrInternal))))
       ELSE Apply(Outcome(Success("Logout", <<sessionID>>, writeError(200, ""),
                                  NoBearer, NoToken, sessionID, NoId, NoId),
                          users, SessionUpdateEnable(sessionID, FALSE), devices,
                          verifications, nextTok))
  /\ UNCHANGED <<now, ticks, rotated, spent, resolved>>
  /\ UNCHANGED <<rlVars, callVars>>

----------------------------------------------------------------------------
(* Username derivation for accounts created by an OAuth login.  An email  *)
(* is a sequence of characters here, so that the split at "@" and the     *)
(* character filter are computed as the code computes them.               *)

MaxSuffix == 99

Letters == {"a", "b", "l", "o", "x", "i"}
Digits == {"0", "1", "7"}
ToLower(c) == IF c = "B" THEN "b" ELSE IF c = "L" THEN "l" ELSE c

RECURSIVE Join(_)
Join(chars) == IF chars = <<>> THEN "" ELSE Head(chars) \o Join(Tail(chars))

(* strings.SplitN(email, "@", 2)[0] *)
RECURSIVE LocalPart(_)
LocalPart(chars) ==
  IF chars = <<>> \/ Head(chars) = "@" THEN <<>>
  ELSE <<Head(chars)>> \o LocalPart(Tail(chars))

RECURSIVE sanitizeUsername(_)
sanitizeUsername(chars) ==
  IF chars = <<>> THEN ""
  ELSE LET r == ToLower(Head(chars))
       IN (IF r \in Letters \cup Digits \cup {".", "_", "-"} THEN r ELSE "")
            \o sanitizeUsername(Tail(chars))

Candidate(base, k) == IF k = 0 THEN base ELSE base \o ToString(k)

(* GetByUsername(candidate): the errors it can return, ErrNone with a user *)
CandidateLookup(base, k) ==
  LET items == {u \in users : u.username = Candidate(base, k)}
  IN {UserLookupError(items, r) : r \in UnmarshalUser(items)}

(* The loop of deriveUsername and its final check, unrolled: the k-th     *)
(* lookup (of base for k = 0, of base followed by k otherwise) is made    *)
(* when every earlier one found a user; in the loop (k < MaxSuffix) it    *)
(* ends the call unless it finds a user, the final check always ends it.  *)
deriveFrom(base) ==
  LET found == {k \in 0..MaxSuffix : ErrNone \in CandidateLookup(base, k)}
      made == {k \in 0..MaxSuffix : \A j \in 0..(k - 1) : j \in found}
      ends(k) == IF k < MaxSuffix THEN CandidateLookup(base, k) \ {ErrNone}
                 ELSE CandidateLookup(base, k)
  IN UNION {
       {IF err = ErrNotFound
          THEN [name |-> Candidate(base, k), msg |-> "", err |-> ErrNone, lookups |-> k + 1]
        ELSE IF k < MaxSuffix
          THEN [name |-> "", msg |-> "", err |-> err, lookups |-> k + 1]
        ELSE [name |-> "", msg |-> "unable to derive unique username from \""
                                     \o base \o "\"",
              err |-> ErrConflict, lookups |-> k + 1]
        : err \in ends(k)}
       : k \in made }

deriveUsername(email) ==
  LET base == sanitizeUsername(LocalPart(email))
  IN deriveFrom(IF base = "" THEN "user" ELSE base)

(* a call of deriveUsername taken on its own *)
DeriveUsername(email) ==
  /\ \E r \in deriveUsername(email) :
       last' = [op |-> "deriveUsername", in |-> <<Join(email)>>, err |-> r.err,
                msg |-> r.msg, name |-> r.name, lookups |-> r.lookups, http |-> NoHttp,
                bearer |-> NoBearer, refresh |-> NoToken,
                session_id |-> NoId, user_id |-> NoId, device_id |-> NoId]
  /\ UNCHANGED <<users, sessions, devices, verifications, now, ticks, nextTok, rotated,
                 spent, resolved>>
  /\ UNCHANGED <<rlVars, callVars>>

----------------------------------------------------------------------------
(* OAuth login.  The credential is the token the identity provider issued: *)
(* googleVerifier.Verify yields its payload, or an error (flt = "verify"). *)

AuthProviderGoogle == "google"
Whitespace == {" "}
RECURSIVE TrimLeft(_)
TrimLeft(chars) ==
  IF chars # <<>> /\ Head(chars) \in Whitespace THEN TrimLeft(Tail(chars)) ELSE chars
RECURSIVE TrimRight(_)
TrimRight(chars) ==
  IF chars # <<>> /\ chars[Len(chars)] \in Whitespace
    THEN TrimRight(SubSeq(chars, 1, Len(chars) - 1))
    ELSE chars
TrimSpace(chars) == TrimRight(TrimLeft(chars))

GoogleFaults == {"none", "verify", "getByEmail", "userPut", "userUpdate", "deviceGet",
                 "devicePut", "newRefreshToken", "sessionPut", "sign"}

(* the account LoginWithGoogle creates for an email no user carries *)
NewGoogleUser(username, payload) ==
  [NoUser EXCEPT !.user_id = NewUserId, !.username = username,
                 !.email = Join(payload.email), !.auth_provider = AuthProviderGoogle,
                 !.google_sub = payload.sub, !.role = RoleUser, !.enable = 1,
                 !.enable_av = "N", !.email_confirmed = TRUE]

(* UserRepo.Update of google_sub and auth_provider *)
UserUpdateGoogleSub(userID, sub) ==
  {IF u.user_id = userID
     THEN [u EXCEPT !.google_sub = sub, !.auth_provider = AuthProviderGoogle]
     ELSE u : u \in users}

GoogleCreate(in, payload, uuid, flt) ==
  UNION {
    IF d.err # ErrNone
      THEN {Unchanged(Failure("LoginWithGoogle", in, d.msg, d.err, NoHttp))}
    ELSE IF flt = "userPut"
      THEN {Unchanged(Failure("LoginWithGoogle", in, "", ErrInternal, NoHttp))}
    ELSE LET u == NewGoogleUser(d.name, payload)
         IN MintSession("LoginWithGoogle", in, u, users \cup {u}, verifications, flt, 200,
                        "SessionHandler.GoogleLogin", uuid)
    : d \in deriveUsername(payload.email) }

GoogleExisting_IgnoresSubject(in, u, payload, uuid, flt) ==
  LET fail(msg) == {Unchanged(Failure("LoginWithGoogle", in, msg, ErrUnauthorized, NoHttp))}
  IN IF u.enable = 0 THEN fail("account disabled")
     ELSE IF u.google_sub # ""
       THEN MintSession("LoginWithGoogle", in, u, users, verifications, flt, 200,
                        "SessionHandler.GoogleLogin", uuid)
     ELSE IF u.password_hash = NoPasswordHash
       THEN fail("google linking not allowed for this account")
     ELSE MintSession("LoginWithGoogle", in,
                      [u EXCEPT !.google_sub = payload.sub,
                                !.auth_provider = AuthProviderGoogle],
                      IF flt = "userUpdate" THEN users
                      ELSE UserUpdateGoogleSub(u.user_id, payload.sub),
                      verifications, flt, 200, "SessionHandler.GoogleLogin", uuid)

GoogleExisting_SkipsAccountChecks(in, u, payload, uuid, flt) ==
  LET fail(msg) == {Unchanged(Failure("LoginWithGoogle", in, msg, ErrUnauthorized, NoHttp))}
  IN IF u.google_sub # "" /\ u.google_sub # payload.sub
       THEN fail("google account mismatch")
     ELSE IF u.google_sub # ""
       THEN MintSession("LoginWithGoogle", in, u, users, verifications, flt, 200,
                        "SessionHandler.GoogleLogin", uuid)
     ELSE MintSession("LoginWithGoogle", in,
                      [u EXCEPT !.google_sub = payload.sub,
                                !.auth_provider = AuthProviderGoogle],
                      IF flt = "userUpdate" THEN users
                      ELSE UserUpdateGoogleSub(u.user_id, payload.sub),
                      verifications, flt, 200, "SessionHandler.GoogleLogin", uuid)

GoogleExisting(in, u, payload, uuid, flt) ==
  LET fail(msg) == {Unchanged(Failure("LoginWithGoogle", in, msg, ErrUnauthorized, NoHttp))}
  IN IF u.enable = 0 THEN fail("account disabled")
     ELSE IF u.google_sub # "" /\ u.google_sub # payload.sub
       THEN fail("google account mismatch")
     ELSE IF u.google_sub # ""
       THEN MintSession("LoginWithGoogle", in, u, users, verifications, flt, 200,
                        "SessionHandler.GoogleLogin", uuid)
     ELSE IF u.password_hash = NoPasswordHash
       THEN fail("google linking not allowed for this account")
     ELSE MintSession("LoginWithGoogle", in,
                      [u EXCEPT !.google_sub = payload.sub,
                                !.auth_provider = AuthProviderGoogle],
                      IF flt = "userUpdate" THEN users
                      ELSE UserUpdateGoogleSub(u.user_id, payload.sub),
                      verifications, flt, 200, "SessionHandler.GoogleLogin", uuid)

(* the checks of the verified payload: the message of the first that fails *)
PayloadError_AcceptsAny(payload) == ""

PayloadError(payload) ==
  IF ~payload.email_verified THEN "google email not verified"
  ELSE IF TrimSpace(payload.email) = <<>> THEN "google email missing"
  ELSE IF payload.sub = "" THEN "google subject missing"
  ELSE ""

LoginWithGoogleOutcomes(payload, uuid, flt) ==
  LET in == <<payload, uuid>>
      items == {u \in users : u.email = Join(payload.email)}
  IN IF flt = "verify"
       THEN {Unchanged(Failure("LoginWithGoogle", in, "", ErrInternal, NoHttp))}
     ELSE IF PayloadError(payload) # ""
       THEN {Unchanged(Failure("LoginWithGoogle", in, PayloadError(payload),
                               ErrUnauthorized, NoHttp))}
     ELSE UNION {
            LET err == IF flt = "getByEmail" THEN ErrInternal ELSE UserLookupError(items, r)
            IN IF err = ErrNone THEN GoogleExisting(in, r, payload, uuid, flt)
               ELSE IF err # ErrNotFound
                 THEN {Unchanged(Failure("LoginWithGoogle", in, "", err, NoHttp))}
               ELSE GoogleCreate(in, payload, uuid, flt)
            : r \in UnmarshalUser(items) }

LoginWithGoogle(payload, uuid, flt) ==
  /\ \E o \in LoginWithGoogleOutcomes(payload, uuid, flt) : Apply(o)
  /\ UNCHANGED <<now, ticks, rotated, spent, resolved>>
  /\ UNCHANGED <<rlVars, callVars>>

(* LoginWithGoogle step by step, one repository call per step: the     *)
(* payload checks with GetByEmail and the account checks; userRepo.    *)
(* Update that links the subject; the minting of the session.  The     *)
(* branch that creates an account starts at pc "derive"; GetByEmail    *)
(* never returns the not-found error that leads there.                 *)
GoogleCall(pc, payload, uuid, u, name) ==
  [pc |-> pc, op |-> "LoginWithGoogle", in |-> <<payload, uuid>>, payload |-> payload,
   uuid |-> uuid, u |-> u, name |-> name]

GoogleFetch(g, payload, uuid) ==
  /\ calls[g] = Idle
  /\ LET in == <<payload, uuid>>
         items == {u \in users : u.email = Join(payload.email)}
         reject(msg, err) ==
           /\ last' = Failure("LoginWithGoogle", in, msg, err, NoHttp)
           /\ done' = done \cup {Returned(g, last')}
           /\ UNCHANGED calls
         goto(pc, u) ==
           /\ calls' = [calls EXCEPT ![g] = GoogleCall(pc, payload, uuid, u, "")]
           /\ UNCHANGED <<last, done>>
     IN IF PayloadError(payload) # ""
          THEN reject(PayloadError(payload), ErrUnauthorized)
          ELSE \E r \in UnmarshalUser(items) :
                 LET err == UserLookupError(items, r)
                 IN IF err = ErrNotFound THEN goto("derive", NoUser)
                    ELSE IF err # ErrNone THEN reject("", err)
                    ELSE IF r.enable = 0 THEN reject("account disabled", ErrUnauthorized)
                    ELSE IF r.google_sub # "" /\ r.google_sub # payload.sub
                      THEN reject("google account mismatch", ErrUnauthorized)
                    ELSE IF r.google_sub # "" THEN goto("mint", r)
                    ELSE IF r.password_hash = NoPasswordHash
                      THEN reject("google linking not allowed for this account",
                                  ErrUnauthorized)
                    ELSE goto("link", r)
  /\ UNCHANGED <<users, sessions, devices, verifications, now, ticks, nextTok, rotated,
                 spent, resolved>>
  /\ UNCHANGED <<rlVars, mu, ctx>>

GoogleLink(g) ==
  /\ calls[g] # Idle
  /\ calls[g].op = "LoginWithGoogle"
  /\ calls[g].pc = "link"
  /\ LET c == calls[g]
     IN /\ users' = UserUpdateGoogleSub(c.u.user_id, c.payload.sub)
        /\ calls' = [calls EXCEPT ![g] =
                       [c EXCEPT !.pc = "mint",
                                 !.u = [c.u EXCEPT !.google_sub = c.payload.sub,
                                                   !.auth_provider = AuthProviderGoogle]]]
  /\ UNCHANGED <<last, done, sessions, devices, verifications, now, ticks, nextTok, rotated,
                 spent, resolved>>
  /\ UNCHANGED <<rlVars, mu, ctx>>

GoogleMint(g) ==
  /\ calls[g] # Idle
  /\ calls[g].op = "LoginWithGoogle"
  /\ calls[g].pc = "mint"
  /\ LET c == calls[g]
     IN \E o \in MintSession("LoginWithGoogle", c.in, c.u, users, verifications, "none", 200,
                              "SessionHandler.GoogleLogin", c.uuid) :
          /\ Apply(o)
          /\ done' = done \cup {Returned(g, o.last)}
  /\ calls' = [calls EXCEPT ![g] = Idle]
  /\ UNCHANGED <<now, ticks, rotated, spent, resolved>>
  /\ UNCHANGED <<rlVars, mu, ctx>>

(* An account written to the users table without a password hash and  *)
(* without an external subject (provisioned by an administrator, not  *)
(* through Register)                                                   *)
ProvisionAccount(username, email) ==
  /\ \A u \in users : u.username # username /\ u.email # email
  /\ Apply(Outcome(Success("Provision", <<username, email>>, NoHttp, NoBearer, NoToken,
                           NoId, NewUserId, NoId),
                   users \cup {[NoUser EXCEPT !.user_id = NewUserId, !.username = username,
                                              !.email = email, !.role = RoleUser,
                                              !.enable = 1, !.enable_av = "N"]},
                   sessions, devices, verifications, nextTok))
  /\ UNCHANGED <<now, ticks, rotated, spent, resolved>>
  /\ UNCHANGED <<rlVars, callVars>>

----------------------------------------------------------------------------
(* User service *)

RegisterFaults == {"none", "getByUsername", "getByEmail", "userPut", "deviceGet",
                   "devicePut", "newRefreshToken", "sessionPut", "sign"}

NewUser(username, email, pw, phone) ==
  [user_id |-> NewUserId, username |-> username, email |-> email, phone |-> phone,
   password_hash |-> GenerateFromPassword(pw), role |-> RoleUser,
   enable |-> 1, enable_av |-> "N", email_confirmed |-> FALSE, phone_confirmed |-> FALSE,
   google_sub |-> "", auth_provider |-> ""]

(* Register: the errors it can return, ErrNone when the user item was put. *)
(* A lookup that returns an error lets the registration through.           *)
RegisterError(username, email, flt) ==
  LET byName == IF flt = "getByUsername" THEN {NoUser} ELSE UserGetByUsername(username)
      byMail == IF flt = "getByEmail" THEN {NoUser} ELSE UserGetByEmail(email)
  IN (IF byName # {NoUser} THEN {<<"username already taken", ErrConflict>>} ELSE {})
     \cup (IF NoUser \in byName /\ byMail # {NoUser}
             THEN {<<"email already registered", ErrConflict>>} ELSE {})
     \cup (IF NoUser \in byName /\ NoUser \in byMail
             THEN {IF flt = "userPut" THEN <<"", ErrInternal>> ELSE <<"", ErrNone>>}
             ELSE {})

Register(username, email, pw, phone, flt) ==
  /\ LET in == <<username, email>>
         u == NewUser(username, email, pw, phone)
     IN \E e \in RegisterError(username, email, flt) :
          IF e[2] # ErrNone
            THEN Apply(Unchanged(Failure("Register", in, e[1], e[2], httpError(e[1], e[2]))))
            ELSE Apply(Outcome(Success("Register", in, writeError(201, ""), NoBearer, NoToken,
                                       NoId, u.user_id, NoId),
                               users \cup {u}, sessions, devices, verifications, nextTok))
  /\ UNCHANGED <<now, ticks, rotated, spent, resolved>>
  /\ UNCHANGED <<rlVars, callVars>>

RegisterOutcomes(username, email, pw, phone, uuid, flt) ==
  LET in == <<username, email>>
      u == NewUser(username, email, pw, phone)
  IN UNION {IF e[2] # ErrNone
              THEN {Unchanged(Failure("Register", in, e[1], e[2], httpError(e[1], e[2])))}
              ELSE MintSession("Register", in, u, users \cup {u}, verifications, flt, 201,
                               "UserHandler", uuid)
            : e \in RegisterError(username, email, flt)}

RegisterWithSession(username, email, pw, phone, uuid, flt) ==
  /\ \E o \in RegisterOutcomes(username, email, pw, phone, uuid, flt) : Apply(o)
  /\ UNCHANGED <<now, ticks, rotated, spent, resolved>>
  /\ UNCHANGED <<rlVars, callVars>>

(* RegisterWithSession step by step: the two lookups of Register, its *)
(* userRepo.Put, and the minting of the session                        *)
RegisterFetch(g, username, email, pw, phone, uuid) ==
  /\ calls[g] = Idle
  /\ LET in == <<username, email>>
     IN \E e \in RegisterError(username, email, "none") :
          IF e[2] # ErrNone
            THEN /\ last' = Failure("Register", in, e[1], e[2], httpError(e[1], e[2]))
                 /\ done' = done \cup {Returned(g, last')}
                 /\ UNCHANGED calls
            ELSE /\ calls' = [calls EXCEPT ![g] =
                                [pc |-> "put", op |-> "Register", in |-> in, pw |-> pw,
                                 phone |-> phone, uuid |-> uuid, u |-> NoUser]]
                 /\ UNCHANGED <<last, done>>
  /\ UNCHANGED <<users, sessions, devices, verifications, now, ticks, nextTok, rotated,
                 spent, resolved>>
  /\ UNCHANGED <<rlVars, mu, ctx>>

RegisterPut(g) ==
  /\ calls[g] # Idle
  /\ calls[g].op = "Register"
  /\ calls[g].pc = "put"
  /\ LET c == calls[g]
         u == NewUser(c.in[1], c.in[2], c.pw, c.phone)
     IN /\ users' = UserPut(u)
        /\ calls' = [calls EXCEPT ![g] = [c EXCEPT !.pc = "mint", !.u = u]]
  /\ UNCHANGED <<last, done, sessions, devices, verifications, now, ticks, nextTok, rotated,
                 spent, resolved>>
  /\ UNCHANGED <<rlVars, mu, ctx>>

RegisterMint(g) ==
  /\ calls[g] # Idle
  /\ calls[g].op = "Register"
  /\ calls[g].pc = "mint"
  /\ LET c == calls[g]
     IN \E o \in MintSession("Register", c.in, c.u, users, verifications, "none", 201,
                              "UserHandler", c.uuid) :
          /\ Apply(o)
          /\ done' = done \cup {Returned(g, o.last)}
  /\ calls' = [calls EXCEPT ![g] = Idle]
  /\ UNCHANGED <<now, ticks, rotated, spent, resolved>>
  /\ UNCHANGED <<rlVars, mu, ctx>>

(* GetCurrent: the session of the bearer's claims with its user attached. *)
(* The handler answers every service error with status 500 and its text.  *)
GetCurrentFaults == {"none", "sessionGet", "userGet"}

GetCurrentHttp(msg, err) ==
  IF err = ErrNone THEN writeError(200, "") ELSE writeError(500, ErrorText(msg, err))

NoSession ==
  [session_id |-> NoId, user_id |-> NoId, device_id |-> NoId, enable |-> FALSE,
   refresh_token |-> NoToken, refresh_expires_at |-> 0]

(* the result of GetCurrent: the common fields and the session and user returned *)
CurrentResult(in, msg, err, sess, u) ==
  [op |-> "GetCurrent", in |-> in, err |-> err, msg |-> msg,
   http |-> GetCurrentHttp(msg, err), bearer |-> NoBearer, refresh |-> NoToken,
   session_id |-> sess.session_id, user_id |-> u.user_id, device_id |-> sess.device_id,
   session |-> sess, user |-> u]

GetCurrentUser_AlwaysUnauthorized(in, sess, flt) ==
  LET items == {u \in users : u.user_id = sess.user_id}
  IN {IF flt = "userGet" \/ UserLookupError(items, u) # ErrNone
        THEN CurrentResult(in, "user not found", ErrUnauthorized, NoSession, NoUser)
        ELSE CurrentResult(in, "", ErrNone, sess, u)
      : u \in UnmarshalUser(items)}

GetCurrentUser(in, sess, flt) ==
  LET items == {u \in users : u.user_id = sess.user_id}
  IN {LET err == IF flt = "userGet" THEN ErrInternal ELSE UserLookupError(items, u)
      IN IF err = ErrNotFound
           THEN CurrentResult(in, "user not found", ErrUnauthorized, NoSession, NoUser)
         ELSE IF err # ErrNone
           THEN CurrentResult(in, "", err, NoSession, NoUser)
         ELSE CurrentResult(in, "", ErrNone, sess, u)
      : u \in UnmarshalUser(items)}

GetCurrentResults(sessionID, flt) ==
  LET in == <<sessionID>>
      found == SessionGet(sessionID)
  IN IF flt = "sessionGet"
       THEN {CurrentResult(in, "", ErrInternal, NoSession, NoUser)}
     ELSE IF found = {}
       THEN {CurrentResult(in, "session not found", ErrUnauthorized, NoSession, NoUser)}
     ELSE UNION {IF ~sess.enable
                   THEN {CurrentResult(in, "session expired", ErrUnauthorized,
                                       NoSession, NoUser)}
                   ELSE GetCurrentUser(in, sess, flt)
                 : sess \in found}

GetCurrent(sessionID, flt) ==
  /\ \E r \in GetCurrentResults(sessionID, flt) : last' = r
  /\ UNCHANGED <<users, sessions, devices, verifications, now, ticks, nextTok, rotated,
                 spent, resolved>>
  /\ UNCHANGED <<rlVars, callVars>>

(* Update with only the role field set (an administrator's request) *)
UserUpdateRole(userID, role) ==
  {IF u.user_id = userID THEN [u EXCEPT !.role = role] ELSE u : u \in users}

UpdateRole(userID, role, flt) ==
  /\ userID \in {u.user_id : u \in users}
  /\ IF role \notin {RoleAdmin, RoleUser}
       THEN Apply(Unchanged(Failure("UpdateRole", <<userID, role>>, "invalid role",
                                    ErrBadRequest, httpError("invalid role", ErrBadRequest))))
     ELSE IF flt = "update"
       THEN Apply(Unchanged(Failure("UpdateRole", <<userID, role>>, "", ErrInternal,
                                    httpError("", ErrInternal))))
     ELSE Apply(Outcome(Success("UpdateRole", <<userID, role>>, writeError(200, ""),
                                NoBearer, NoToken, NoId, userID, NoId),
                        UserUpdateRole(userID, role), sessions, devices,
                        verifications, nextTok))
  /\ UNCHANGED <<now, ticks, rotated, spent, resolved>>
  /\ UNCHANGED <<rlVars, callVars>>

(* Update with only the enable field set (an administrator's request) *)
UpdateFaults == {"none", "update"}

UserUpdate(userID, enable, flt) ==
  /\ userID \in {u.user_id : u \in users}
  /\ IF flt = "update"
       THEN Apply(Unchanged(Failure("Update", <<userID, enable>>, "", ErrInternal,
                                    httpError("", ErrInternal))))
       ELSE Apply(Outcome(Success("Update", <<userID, enable>>, writeError(200, ""),
                                  NoBearer, NoToken, NoId, userID, NoId),
                          UserUpdateEnable(userID, enable), sessions, devices,
                          verifications, nextTok))
  /\ UNCHANGED <<now, ticks, rotated, spent, resolved>>
  /\ UNCHANGED <<rlVars, callVars>>

SoftDeleteByUser_Purges(userID, failing) ==
  {s \in sessions : s.user_id # userID}

SoftDeleteByUser(userID, failing) ==
  {IF s.user_id = userID /\ s.session_id \notin failing
     THEN [s EXCEPT !.enable = FALSE] ELSE s : s \in sessions}

DeleteFaults == {"none", "softDelete", "query", "sessionUpdate"}

Delete(userID, flt) ==
  /\ userID \in {u.user_id : u \in users}
  /\ LET in == <<userID>>
         mine == {s.session_id : s \in {x \in sessions : x.user_id = userID}}
     IN IF flt = "softDelete"
          THEN Apply(Unchanged(Failure("Delete", in, "", ErrInternal,
                                       httpError("", ErrInternal))))
        ELSE IF flt = "query"
          THEN Apply(Outcome(Failure("Delete", in, "", ErrInternal, httpError("", ErrInternal)),
                             UserSoftDelete(userID), sessions, devices,
                             verifications, nextTok))
        ELSE IF flt = "sessionUpdate"
          THEN \E sid \in mine :
                 Apply(Outcome(Failure("Delete", in, "", ErrInternal,
                                       httpError("", ErrInternal)),
                               UserSoftDelete(userID), SoftDeleteByUser(userID, {sid}),
                               devices, verifications, nextTok))
        ELSE Apply(Outcome(Success("Delete", in, writeError(200, ""), NoBearer, NoToken,
                                   NoId, userID, NoId),
                           UserSoftDelete(userID), SoftDeleteByUser(userID, {}),
                           devices, verifications, nextTok))
  /\ UNCHANGED <<now, ticks, rotated, spent, resolved>>
  /\ UNCHANGED <<rlVars, callVars>>

----------------------------------------------------------------------------
(* Verification-code service *)

(* generateOTP: OtpLength characters, each the character of otpChars at an *)
(* index rand.Int draws from 0 .. len(chars) - 1; an error of the random    *)
(* source ends the call.  A string is the sequence of its characters.       *)
OtpLength == 6
otpChars ==
  <<"2", "3", "4", "5", "6", "7", "8", "9", "A", "B", "C", "D", "E", "F", "G", "H",
    "J", "K", "M", "N", "P", "Q", "R", "S", "T", "U", "V", "W", "X", "Y", "Z">>

generateOTP_FullAlphabet(idxs, flt) ==
  LET all == <<"0", "1", "I", "L", "O">> \o otpChars
  IN IF flt = "rand" THEN [code |-> <<>>, err |-> ErrInternal]
     ELSE [code |-> [i \in 1..OtpLength |-> all[idxs[i] + 1]], err |-> ErrNone]

generateOTP(idxs, flt) ==
  IF flt = "rand" THEN [code |-> <<>>, err |-> ErrInternal]
  ELSE [code |-> [i \in 1..OtpLength |-> otpChars[idxs[i] + 1]], err |-> ErrNone]


VerificationGet(userID, verType) ==
  {v \in verifications : v.user_id = userID /\ v.type = verType}

VerificationPut_KeepsPrior(v) == verifications \cup {v}

VerificationPut(v) ==
  {x \in verifications : ~(x.user_id = v.user_id /\ x.type = v.type)} \cup {v}

VerificationDelete(userID, verType) ==
  {x \in verifications : ~(x.user_id = userID /\ x.type = verType)}

NewVerification(userID, verType, code, ttl) ==
  [user_id |-> userID, type |-> verType, code |-> code, expires_at |-> now + ttl]

UserUpdateFlag_SetsBoth(userID, flag) ==
  {IF u.user_id = userID
     THEN [u EXCEPT !.email_confirmed = TRUE, !.phone_confirmed = TRUE] ELSE u
   : u \in users}

UserUpdateFlag(userID, flag) ==
  {IF u.user_id = userID THEN [u EXCEPT ![flag] = TRUE] ELSE u : u \in users}

(* the comparison and the expiry test every Validate makes on the fetched *)
(* record: the error it returns, ErrNone when the code is accepted        *)
CodeCheck_IgnoresExpiry(v, code, what) ==
  IF v.code # code THEN <<"invalid " \o what, ErrUnauthorized>>
  ELSE <<"", ErrNone>>

CodeCheck(v, code, what) ==
  IF v.code # code THEN <<"invalid " \o what, ErrUnauthorized>>
  ELSE IF v.expires_at < now THEN <<what \o " expired", ErrUnauthorized>>
  ELSE <<"", ErrNone>>

(* A Request returns pairs <<outcome, put>>: put tells that the record was written *)
RecoveryFaults == {"none", "getByEmail", "generateOTP", "verificationPut", "sendEmail"}

RequestPasswordRecoveryOutcomes(email, otp, flt) ==
  LET op == "RequestPasswordRecovery"
      in == <<email, otp>>
      fail(msg, err) == Failure(op, in, msg, err, httpError(msg, err))
      found == IF flt = "getByEmail" THEN {NoUser} ELSE UserGetByEmail(email)
  IN IF email = NoEmail
       THEN {<<Unchanged(fail("email or phone_number required", ErrBadRequest)), FALSE>>}
     ELSE {IF u = NoUser
             THEN <<Unchanged(fail("user not found", ErrNotFound)), FALSE>>
           ELSE IF flt \in {"generateOTP", "verificationPut"}
             THEN <<Unchanged(fail("", ErrInternal)), FALSE>>
           ELSE <<Outcome(IF flt = "sendEmail" THEN fail("", ErrInternal)
                          ELSE Success(op, in, writeError(200, ""), NoBearer, NoToken,
                                       NoId, u.user_id, NoId),
                          users, sessions, devices,
                          VerificationPut(NewVerification(u.user_id, "otp", otp, OTPTTL)),
                          nextTok), TRUE>>
           : u \in found}

RequestPasswordRecovery(email, otp, flt) ==
  /\ \E r \in RequestPasswordRecoveryOutcomes(email, otp, flt) :
       /\ Apply(r[1])
       /\ spent' = IF r[2]
                     THEN {e \in spent : ~(e[1] = "ValidateOTP" /\ e[2][1] = email)}
                     ELSE spent
  /\ UNCHANGED <<now, ticks, rotated, resolved>>
  /\ UNCHANGED <<rlVars, callVars>>

ValidateOTPFaults == {"none", "getByEmail", "verificationGet", "verificationDelete",
                      "deviceGet", "devicePut", "newRefreshToken", "sessionPut", "sign"}

ValidateOTPUser(in, u, otp, uuid, flt) ==
  LET fail(msg, err) == Unchanged(Failure("ValidateOTP", in, msg, err, httpError(msg, err)))
      vs == IF flt = "verificationGet" THEN {} ELSE VerificationGet(u.user_id, "otp")
      left == IF flt = "verificationDelete" THEN verifications
              ELSE VerificationDelete(u.user_id, "otp")
  IN IF vs = {}
       THEN {fail("OTP not found", ErrNotFound)}
       ELSE UNION {LET c == CodeCheck(v, otp, "OTP")
                   IN IF c[2] # ErrNone
                        THEN {fail(c[1], c[2])}
                        ELSE MintSession("ValidateOTP", in, u, users, left, flt, 200,
                                         "PasswordRecoveryHandler", uuid)
                   : v \in vs}

ValidateOTPOutcomes(email, otp, uuid, flt) ==
  LET in == <<email, otp>>
      fail(msg, err) == Unchanged(Failure("ValidateOTP", in, msg, err, httpError(msg, err)))
      found == IF flt = "getByEmail" THEN {NoUser} ELSE UserGetByEmail(email)
  IN IF email = NoEmail
       THEN {fail("email required to validate OTP", ErrBadRequest)}
     ELSE UNION {IF u = NoUser
                   THEN {fail("user not found", ErrNotFound)}
                   ELSE ValidateOTPUser(in, u, otp, uuid, flt)
                 : u \in found}

ValidateOTP(email, otp, uuid, flt) ==
  /\ \E o \in ValidateOTPOutcomes(email, otp, uuid, flt) :
       /\ Apply(o)
       /\ spent' = IF o.last.err = ErrNone
                     THEN spent \cup {<<"ValidateOTP", <<email, otp>>>>}
                     ELSE spent
  /\ UNCHANGED <<now, ticks, rotated, resolved>>
  /\ UNCHANGED <<rlVars, callVars>>

(* ValidateOTP as the goroutine serving it runs it, so that the steps of  *)
(* two calls interleave: the reads with the comparison and the expiry    *)
(* test, the delete of the record, then the minting of the session.      *)
ValidateOTPFetch(g, email, otp, uuid) ==
  /\ calls[g] = Idle
  /\ email # NoEmail
  /\ LET in == <<email, otp>>
         fail(msg, err) == Failure("ValidateOTP", in, msg, err, httpError(msg, err))
         reject(res) == /\ last' = res
                        /\ done' = done \cup {Returned(g, res)}
                        /\ UNCHANGED calls
     IN \E u \in UserGetByEmail(email) :
          IF u = NoUser THEN reject(fail("user not found", ErrNotFound))
          ELSE IF VerificationGet(u.user_id, "otp") = {}
            THEN reject(fail("OTP not found", ErrNotFound))
          ELSE \E v \in VerificationGet(u.user_id, "otp") :
                 LET c == CodeCheck(v, otp, "OTP")
                 IN IF c[2] # ErrNone THEN reject(fail(c[1], c[2]))
                    ELSE /\ calls' = [calls EXCEPT ![g] =
                                        [pc |-> "delete", op |-> "ValidateOTP", in |-> in,
                                         u |-> u, uuid |-> uuid]]
                         /\ UNCHANGED <<last, done>>
  /\ UNCHANGED <<users, sessions, devices, verifications, now, ticks, nextTok, rotated,
                 spent, resolved>>
  /\ UNCHANGED <<rlVars, mu, ctx>>

(* verificationRepo.Delete: DeleteItem succeeds whether or not the item is there *)
ValidateOTPDelete(g) ==
  /\ calls[g].pc = "delete"
  /\ calls[g].op = "ValidateOTP"
  /\ verifications' = VerificationDelete(calls[g].u.user_id, "otp")
  /\ calls' = [calls EXCEPT ![g] = [@ EXCEPT !.pc = "mint"]]
  /\ UNCHANGED <<users, sessions, devices, now, ticks, nextTok, last, rotated, spent,
                 resolved, done>>
  /\ UNCHANGED <<rlVars, mu, ctx>>

(* device.Resolve, NewRefreshToken, sessionRepo.Put, Sign and the return *)
ValidateOTPMint(g) ==
  /\ calls[g].pc = "mint"
  /\ calls[g].op = "ValidateOTP"
  /\ LET c == calls[g]
     IN \E o \in MintSession("ValidateOTP", c.in, c.u, users, verifications, "none", 200,
                              "PasswordRecoveryHandler", c.uuid) :
          /\ Apply(o)
          /\ done' = done \cup {Returned(g, o.last)}
          /\ spent' = IF o.last.err = ErrNone
                        THEN spent \cup {<<"ValidateOTP", c.in>>}
                        ELSE spent
  /\ calls' = [calls EXCEPT ![g] = Idle]
  /\ UNCHANGED <<now, ticks, rotated, resolved>>
  /\ UNCHANGED <<rlVars, mu, ctx>>

(* The confirmation endpoints sit behind the Auth middleware: userID is the *)
(* user_id of a verified bearer, and user items are never removed.          *)
UserIds == {u.user_id : u \in users}

EmailConfirmFaults == {"none", "generateToken", "verificationPut", "userGet", "sendEmail"}

RequestEmailConfirmationOutcomes(userID, token, flt) ==
  LET op == "RequestEmailConfirmation"
      in == <<userID, token>>
      fail(msg, err) == Failure(op, in, msg, err, writeError(500, ErrorText(msg, err)))
      put == VerificationPut(NewVerification(userID, "email", token, EmailTTL))
      us == IF flt = "userGet" THEN {NoUser} ELSE UserGet(userID)
  IN IF flt \in {"generateToken", "verificationPut"}
       THEN {<<Unchanged(fail("", ErrInternal)), FALSE>>}
     ELSE {IF u = NoUser \/ flt = "sendEmail"
             THEN <<Outcome(fail("", ErrInternal), users, sessions, devices, put, nextTok),
                    TRUE>>
             ELSE <<Outcome(Success(op, in, writeError(200, ""), NoBearer, NoToken, NoId,
                                    userID, NoId),
                            users, sessions, devices, put, nextTok), TRUE>>
           : u \in us}

PhoneConfirmFaults == {"none", "userGet", "generateOTP", "verificationPut", "sendSMS"}

RequestPhoneConfirmationOutcomes(userID, otp, flt) ==
  LET op == "RequestPhoneConfirmation"
      in == <<userID, otp>>
      fail(msg, err) == Failure(op, in, msg, err, NoHttp)
      put == VerificationPut(NewVerification(userID, "phone", otp, OTPTTL))
      us == IF flt = "userGet" THEN {NoUser} ELSE UserGet(userID)
  IN {IF u = NoUser
        THEN <<Unchanged(fail("user not found", ErrNotFound)), FALSE>>
      ELSE IF u.phone = NoPhone
        THEN <<Unchanged(fail("no phone number on account", ErrBadRequest)), FALSE>>
      ELSE IF flt \in {"generateOTP", "verificationPut"}
        THEN <<Unchanged(fail("", ErrInternal)), FALSE>>
      ELSE <<Outcome(IF flt = "sendSMS" THEN fail("", ErrInternal)
                     ELSE Success(op, in, NoHttp, NoBearer, NoToken, NoId, userID, NoId),
                     users, sessions, devices, put, nextTok), TRUE>>
      : u \in us}

RequestConfirmation(rs, validateOp, userID) ==
  /\ userID \in UserIds
  /\ \E r \in rs :
       /\ Apply(r[1])
       /\ spent' = IF r[2]
                     THEN {e \in spent : ~(e[1] = validateOp /\ e[2][1] = userID)}
                     ELSE spent
  /\ UNCHANGED <<now, ticks, rotated, resolved>>
  /\ UNCHANGED <<rlVars, callVars>>

RequestEmailConfirmation(userID, token, flt) ==
  RequestConfirmation(RequestEmailConfirmationOutcomes(userID, token, flt),
                      "ValidateEmailToken", userID)

RequestPhoneConfirmation(userID, otp, flt) ==
  RequestConfirmation(RequestPhoneConfirmationOutcomes(userID, otp, flt),
                      "ValidatePhoneOTP", userID)

ConfirmFaults == {"none", "verificationGet", "verificationDelete", "userUpdate"}

(* ValidateEmailToken and ValidatePhoneOTP: the same steps on their own   *)
(* record type, wording and user flag                                      *)
ValidateConfirmationOutcomes(op, verType, what, flag, handler, userID, code, flt) ==
  LET in == <<userID, code>>
      fail(msg, err) == Failure(op, in, msg, err, HandlerHttp(handler, msg, err))
      vs == IF flt = "verificationGet" THEN {} ELSE VerificationGet(userID, verType)
      left == IF flt = "verificationDelete" THEN verifications
              ELSE VerificationDelete(userID, verType)
  IN IF vs = {}
       THEN {Unchanged(fail(what \o " not found", ErrNotFound))}
       ELSE {LET c == CodeCheck(v, code, what)
             IN IF c[2] # ErrNone
                  THEN Unchanged(fail(c[1], c[2]))
                ELSE IF flt = "userUpdate"
                  THEN Outcome(fail("", ErrInternal), users, sessions, devices, left, nextTok)
                ELSE Outcome(Success(op, in, HandlerHttp(handler, "", ErrNone), NoBearer, NoToken, NoId,
                                     userID, NoId),
                             UserUpdateFlag(userID, flag), sessions, devices, left, nextTok)
             : v \in vs}

ValidateConfirmation(os, op, userID, code) ==
  /\ userID \in UserIds
  /\ \E o \in os :
       /\ Apply(o)
       /\ spent' = IF o.last.err = ErrNone
                     THEN spent \cup {<<op, <<userID, code>>>>}
                     ELSE spent
  /\ UNCHANGED <<now, ticks, rotated, resolved>>
  /\ UNCHANGED <<rlVars, callVars>>

ValidateEmailTokenOutcomes(userID, token, flt) ==
  ValidateConfirmationOutcomes("ValidateEmailToken", "email", "token", "email_confirmed",
                               "EmailConfirmHandler", userID, token, flt)

ValidateEmailToken(userID, token, flt) ==
  ValidateConfirmation(ValidateEmailTokenOutcomes(userID, token, flt),
                       "ValidateEmailToken", userID, token)

ValidatePhoneOTPOutcomes(userID, otp, flt) ==
  ValidateConfirmationOutcomes("ValidatePhoneOTP", "phone", "OTP", "phone_confirmed",
                               "PhoneConfirmHandler", userID, otp, flt)

ValidatePhoneOTP(userID, otp, flt) ==
  ValidateConfirmation(ValidatePhoneOTPOutcomes(userID, otp, flt),
                       "ValidatePhoneOTP", userID, otp)

(* Store-enforced expiry: the table's TTL on expires_at removes an item   *)
(* some time after its expiry has passed                                   *)
TTLExpire ==
  /\ \E v \in verifications :
       /\ v.expires_at < now
       /\ verifications' = verifications \ {v}
  /\ last' = Failure("TTLExpire", <<>>, "", ErrNone, NoHttp)
  /\ UNCHANGED <<users, sessions, devices, now, ticks, nextTok, rotated, spent, resolved>>
  /\ UNCHANGED <<rlVars, callVars>>

----------------------------------------------------------------------------
(* Per-IP rate limiter.  A bucket counts its tokens in milliseconds of   *)
(* refill: one token is RefillInterval of them, the ceiling is Burst      *)
(* tokens.                                                                 *)

IPs == {"10.0.0.1", "10.0.0.2"}
RefillInterval == 1000 \div RatePerSec

Min(a, b) == IF a <= b THEN a ELSE b

(* rate.NewLimiter(rl.r, rl.burst) with the lastSeen of its map entry *)
NewLimiter == [tokens |-> Burst * RefillInterval, last |-> rlNow, lastSeen |-> rlNow]

NewRun == [born |-> rlNow, count |-> 0, rejectedAt |-> -1]

(* rl.get(ip): the entry of ip, created full when absent, its lastSeen set *)
get(ip) ==
  IF ip \in DOMAIN limiters THEN [limiters[ip] EXCEPT !.lastSeen = rlNow] ELSE NewLimiter

Allow_NoRefill(b) ==
  IF b.tokens >= RefillInterval
    THEN [ok |-> TRUE, bucket |-> [b EXCEPT !.tokens = b.tokens - RefillInterval,
                                              !.last = rlNow]]
    ELSE [ok |-> FALSE, bucket |-> b]

(* limiter.Allow(): refill for the time since the last grant, up to the *)
(* ceiling, then take one token if there is one                          *)
Allow(b) ==
  LET tokens == Min(Burst * RefillInterval, b.tokens + (rlNow - b.last))
  IN IF tokens >= RefillInterval
       THEN [ok |-> TRUE, bucket |-> [b EXCEPT !.tokens = tokens - RefillInterval,
                                                 !.last = rlNow]]
       ELSE [ok |-> FALSE, bucket |-> b]

NoRequest == [op |-> "init", ip |-> "", status |-> 0, body |-> "", handled |-> FALSE]

Limit(ip) ==
  LET a == Allow(get(ip))
      run == IF ip \in DOMAIN rlRun THEN rlRun[ip] ELSE NewRun
  IN /\ run.count < MaxRequests
     /\ limiters' = [i \in DOMAIN limiters \cup {ip} |->
                       IF i = ip THEN a.bucket ELSE limiters[i]]
     /\ rlLast' = IF a.ok
                    THEN [op |-> "Limit", ip |-> ip, status |-> 200, body |-> "",
                          handled |-> TRUE]
                    ELSE [op |-> "Limit", ip |-> ip, status |-> 429,
                          body |-> "{\"error\":\"too many requests\"}", handled |-> FALSE]
     /\ rlRun' = [i \in DOMAIN rlRun \cup {ip} |->
                    IF i = ip
                      THEN [run EXCEPT !.count = run.count + 1,
                                       !.rejectedAt = IF a.ok THEN -1 ELSE rlNow]
                      ELSE rlRun[i]]
     /\ UNCHANGED <<rlNow, rlTicks, rlSweepAt>>
     /\ UNCHANGED <<authVars, callVars>>

stale_AtWindow(v) == rlNow - v.lastSeen >= IdleTimeout

(* time.Since(v.lastSeen) > 10*time.Minute *)
stale(v) == rlNow - v.lastSeen > IdleTimeout

(* one round of the cleanup goroutine's loop, when its timer has fired *)
cleanup ==
  /\ calls[Sweeper] = Idle
  /\ rlNow >= rlSweepAt
  /\ LET keep == {ip \in DOMAIN limiters : ~stale(limiters[ip])}
     IN /\ limiters' = [ip \in keep |-> limiters[ip]]
        /\ rlRun' = [ip \in keep |-> rlRun[ip]]
  /\ rlSweepAt' = rlNow + CleanupPeriod
  /\ rlLast' = [NoRequest EXCEPT !.op = "cleanup"]
  /\ UNCHANGED <<rlNow, rlTicks>>
  /\ UNCHANGED <<authVars, callVars>>

(* time passes; the cleanup timer is served when it fires *)
RlTick(d) ==
  /\ rlTicks < MaxRlTicks
  /\ rlNow + d <= rlSweepAt
  /\ rlNow' = rlNow + d
  /\ rlTicks' = rlTicks + 1
  /\ rlLast' = [NoRequest EXCEPT !.op = "Tick"]
  /\ UNCHANGED <<limiters, rlSweepAt, rlRun>>
  /\ UNCHANGED <<authVars, callVars>>

----------------------------------------------------------------------------
(* The limiter as its goroutines run it: the request goroutines in get and *)
(* Allow, the cleanup goroutine in its pass, one step per access to the    *)
(* map.  A map entry points to its rate.Limiter: the entry carries the id  *)
(* of that object, a goroutine that got the pointer keeps the id, and an   *)
(* object the map has dropped lives on (held) in the calls that hold it.   *)

Lock_NeverBlocks(g) == TRUE

(* rl.mu.Lock() returns once no goroutine holds the mutex *)
Lock(g) == mu = {}

NoBucket == [tokens |-> 0, last |-> 0, lastSeen |-> 0, id |-> NoId]

NewEntry(id) ==
  [tokens |-> NewLimiter.tokens, last |-> NewLimiter.last,
   lastSeen |-> NewLimiter.lastSeen, id |-> id]

InLimit == {g \in Goroutines : calls[g] # Idle}

UsedIds ==
  {limiters[i].id : i \in DOMAIN limiters} \cup {calls[g].id : g \in InLimit}
    \cup {e.id : e \in {x \in done : x.op = "create"}}

NewBucketId ==
  CHOOSE k \in 1..(Cardinality(UsedIds) + 1) :
    k \notin UsedIds /\ \A j \in 1..(k - 1) : j \in UsedIds

(* the calls once the map has dropped the object b *)
Orphan(cs, b) ==
  [g \in DOMAIN cs |->
     IF g \in InLimit /\ cs[g].id = b.id /\ ~cs[g].orphan
       THEN [cs[g] EXCEPT !.orphan = TRUE, !.held = b]
       ELSE cs[g]]

LimitCall(pc, ip, id) ==
  [pc |-> pc, op |-> "Limit", ip |-> ip, id |-> id, lookedAt |-> rlNow,
   created |-> FALSE, orphan |-> FALSE, held |-> NoBucket]

(* get: Lock, then the lookup; an entry that is there has its lastSeen set *)
LimitGet(g, ip) ==
  /\ calls[g] = Idle
  /\ Lock(g)
  /\ mu' = mu \cup {g}
  /\ IF ip \in DOMAIN limiters
       THEN /\ limiters' = [limiters EXCEPT ![ip].lastSeen = rlNow]
            /\ calls' = [calls EXCEPT ![g] = LimitCall("unlock", ip, limiters[ip].id)]
       ELSE /\ calls' = [calls EXCEPT ![g] = LimitCall("insert", ip, NoId)]
            /\ UNCHANGED limiters
  /\ UNCHANGED <<rlNow, rlTicks, rlSweepAt, rlLast, rlRun, done>>
  /\ UNCHANGED <<authVars, ctx>>

(* get: no entry was found, a full bucket is stored under ip *)
LimitGetInsert(g) ==
  /\ calls[g] # Idle
  /\ calls[g].op = "Limit"
  /\ calls[g].pc = "insert"
  /\ LET ip == calls[g].ip
         id == NewBucketId
         cs == IF ip \in DOMAIN limiters THEN Orphan(calls, limiters[ip]) ELSE calls
     IN /\ limiters' = [i \in DOMAIN limiters \cup {ip} |->
                          IF i = ip THEN NewEntry(id) ELSE limiters[i]]
        /\ calls' = [cs EXCEPT ![g] = [calls[g] EXCEPT !.pc = "unlock", !.id = id,
                                                        !.created = TRUE]]
        /\ done' = done \cup {[op |-> "create", ip |-> ip, at |-> rlNow, id |-> id]}
  /\ UNCHANGED <<rlNow, rlTicks, rlSweepAt, rlLast, rlRun, mu>>
  /\ UNCHANGED <<authVars, ctx>>

(* get returns: the deferred Unlock *)
LimitGetReturn(g) ==
  /\ calls[g] # Idle
  /\ calls[g].op = "Limit"
  /\ calls[g].pc = "unlock"
  /\ mu' = mu \ {g}
  /\ calls' = [calls EXCEPT ![g] = [@ EXCEPT !.pc = "allow"]]
  /\ UNCHANGED <<limiters, rlNow, rlTicks, rlSweepAt, rlLast, rlRun, done>>
  /\ UNCHANGED <<authVars, ctx>>

(* history: how many requests of ip that looked their bucket up at lookedAt *)
(* were answered at the instant at, and how many of them were admitted      *)
NoTally(ip, lookedAt) ==
  [op |-> "Limit", ip |-> ip, lookedAt |-> lookedAt, at |-> rlNow, served |-> 0,
   admitted |-> 0]

TallyOf(ip, lookedAt) ==
  LET found == {t \in done : /\ t.op = "Limit" /\ t.ip = ip
                              /\ t.lookedAt = lookedAt /\ t.at = rlNow}
  IN IF found = {} THEN NoTally(ip, lookedAt) ELSE CHOOSE t \in found : TRUE

Served(c, ok) ==
  LET t == TallyOf(c.ip, c.lookedAt)
  IN (done \ {t}) \cup {[t EXCEPT !.served = @ + 1,
                                   !.admitted = IF ok THEN @ + 1 ELSE @]}

(* Allow on the limiter get returned, and the response *)
LimitAllow(g) ==
  /\ calls[g] # Idle
  /\ calls[g].op = "Limit"
  /\ calls[g].pc = "allow"
  /\ LET c == calls[g]
         a == Allow(IF c.orphan THEN c.held ELSE limiters[c.ip])
     IN /\ limiters' = IF c.orphan THEN limiters
                       ELSE [limiters EXCEPT ![c.ip] = a.bucket]
        /\ calls' = [h \in DOMAIN calls |->
                       IF h = g THEN Idle
                       ELSE IF c.orphan /\ h \in InLimit /\ calls[h].id = c.id
                         THEN [calls[h] EXCEPT !.held = a.bucket]
                         ELSE calls[h]]
        /\ done' = Served(c, a.ok)
        /\ rlLast' = IF a.ok
                       THEN [op |-> "Limit", ip |-> c.ip, status |-> 200, body |-> "",
                             handled |-> TRUE]
                       ELSE [op |-> "Limit", ip |-> c.ip, status |-> 429,
                             body |-> "{\"error\":\"too many requests\"}",
                             handled |-> FALSE]
  /\ UNCHANGED <<rlNow, rlTicks, rlSweepAt, rlRun, mu>>
  /\ UNCHANGED <<authVars, ctx>>

CtxDone_Never == FALSE

(* case <-ctx.Done() is ready *)
CtxDone == ctx

(* the owner of the limiter cancels the context *)
Cancel ==
  /\ ~ctx
  /\ ctx' = TRUE
  /\ UNCHANGED <<rlVars, calls, done, mu>>
  /\ UNCHANGED authVars

SweeperReturned == [pc |-> "returned", op |-> "cleanup"]

(* cleanup: the select takes the ctx.Done case and the goroutine returns *)
cleanupReturn ==
  /\ calls[Sweeper] = Idle
  /\ CtxDone
  /\ calls' = [calls EXCEPT ![Sweeper] = SweeperReturned]
  /\ UNCHANGED <<rlVars, done, mu>>
  /\ UNCHANGED <<authVars, ctx>>

(* cleanup: the select takes the timer case; Lock is next *)
cleanupWake ==
  /\ calls[Sweeper] = Idle
  /\ rlNow >= rlSweepAt
  /\ calls' = [calls EXCEPT ![Sweeper] = [pc |-> "lock", op |-> "cleanup"]]
  /\ UNCHANGED <<rlVars, done, mu>>
  /\ UNCHANGED <<authVars, ctx>>

(* cleanup: Lock, and the range over the map begins *)
cleanupLock ==
  /\ calls[Sweeper] # Idle
  /\ calls[Sweeper].pc = "lock"
  /\ Lock(Sweeper)
  /\ mu' = mu \cup {Sweeper}
  /\ calls' = [calls EXCEPT ![Sweeper] =
                 [pc |-> "range", op |-> "cleanup", todo |-> DOMAIN limiters, cur |-> "",
                  before |-> limiters]]
  /\ UNCHANGED <<limiters, rlNow, rlTicks, rlSweepAt, rlLast, rlRun, done>>
  /\ UNCHANGED <<authVars, ctx>>

(* cleanup: the test of one entry of the range *)
cleanupVisit ==
  /\ calls[Sweeper] # Idle
  /\ calls[Sweeper].pc = "range"
  /\ \E ip \in calls[Sweeper].todo :
       calls' = [calls EXCEPT ![Sweeper] =
                   IF ip \in DOMAIN limiters /\ stale(limiters[ip])
                     THEN [@ EXCEPT !.pc = "delete", !.cur = ip]
                     ELSE [@ EXCEPT !.todo = @ \ {ip}]]
  /\ UNCHANGED <<limiters, rlNow, rlTicks, rlSweepAt, rlLast, rlRun, done, mu>>
  /\ UNCHANGED <<authVars, ctx>>

(* cleanup: delete(rl.limiters, ip) *)
cleanupDelete ==
  /\ calls[Sweeper] # Idle
  /\ calls[Sweeper].pc = "delete"
  /\ LET ip == calls[Sweeper].cur
         cs == IF ip \in DOMAIN limiters THEN Orphan(calls, limiters[ip]) ELSE calls
     IN /\ limiters' = [i \in DOMAIN limiters \ {ip} |-> limiters[i]]
        /\ calls' = [cs EXCEPT ![Sweeper] = [@ EXCEPT !.pc = "range", !.todo = @ \ {ip}]]
  /\ UNCHANGED <<rlNow, rlTicks, rlSweepAt, rlLast, rlRun, done, mu>>
  /\ UNCHANGED <<authVars, ctx>>

(* cleanup: the range is over, Unlock, and the timer is set again *)
cleanupUnlock ==
  /\ calls[Sweeper] # Idle
  /\ calls[Sweeper].pc = "range"
  /\ calls[Sweeper].todo = {}
  /\ mu' = mu \ {Sweeper}
  /\ calls' = [calls EXCEPT ![Sweeper] = Idle]
  /\ rlSweepAt' = rlNow + CleanupPeriod
  /\ rlLast' = [NoRequest EXCEPT !.op = "cleanup"]
  /\ UNCHANGED <<limiters, rlNow, rlTicks, rlRun, done>>
  /\ UNCHANGED <<authVars, ctx>>

----------------------------------------------------------------------------
(* Time *)

NoResult == Failure("init", <<>>, "", ErrNone, NoHttp)

Tick(d) ==
  /\ ticks < MaxTicks
  /\ now' = now + d
  /\ ticks' = ticks + 1
  /\ last' = Failure("Tick", <<d>>, "", ErrNone, NoHttp)
  /\ UNCHANGED <<users, sessions, devices, verifications, nextTok, rotated, spent, resolved>>
  /\ UNCHANGED <<rlVars, callVars>>

----------------------------------------------------------------------------
Init ==
  /\ users = {}
  /\ sessions = {}
  /\ devices = {}
  /\ verifications = {}
  /\ now = 0
  /\ ticks = 0
  /\ nextTok = 0
  /\ last = NoResult
  /\ rotated = {}
  /\ spent = {}
  /\ resolved = {}
  /\ limiters = [ip \in {} |-> NewLimiter]
  /\ rlNow = 0
  /\ rlTicks = 0
  /\ rlSweepAt = CleanupPeriod
  /\ rlLast = NoRequest
  /\ rlRun = [ip \in {} |-> NewRun]
  /\ calls = [g \in Workers |-> Idle]
  /\ done = {}
  /\ mu = {}
  /\ ctx = FALSE

UUIDInputs == {NilUUID} \cup ClientUUIDs
TokenInputs == (1..nextTok) \cup {-1}
Idents == Usernames \cup Emails

(* Login, registration and account disabling *)
DoRegister ==
  \E n \in Usernames, e \in Emails, pw \in Passwords, f \in {"none", "userPut", "sessionPut"} :
    RegisterWithSession(n, e, pw, NoPhone, NilUUID, f)
DoLogin ==
  \E i \in Idents, pw \in Passwords, x \in UUIDInputs,
     f \in {"none", "getByUsername", "deviceGet", "sessionPut", "sign"} : Login(i, pw, x, f)
DoUserUpdate == \E uid \in 1..MaxUsers, e \in {0, 1}, f \in UpdateFaults : UserUpdate(uid, e, f)
DoDelete == \E uid \in 1..MaxUsers, f \in DeleteFaults : Delete(uid, f)
TickSecond == Tick(1)

Next ==
  \/ DoRegister
  \/ DoLogin
  \/ DoUserUpdate
  \/ TickSecond

Spec == Init /\ [][Next]_vars

(* Disabled accounts: an administrator's update to enable 0, and the soft *)
(* delete of the account                                                   *)
RegisterAccount ==
  \E n \in Usernames, e \in Emails : Register(n, e, "pw1", NoPhone, "none")
LoginAccount == \E i \in Idents, pw \in Passwords : Login(i, pw, NilUUID, "none")
DeleteAccount == \E uid \in 1..MaxUsers, f \in {"none", "softDelete"} : Delete(uid, f)

NextDisable ==
  \/ RegisterAccount
  \/ LoginAccount
  \/ DoUserUpdate
  \/ DeleteAccount

SpecDisable == Init /\ [][NextDisable]_vars

(* Session lifecycle of one account: login, refresh rotation, logout *)
RegisterAlice ==
  \E f \in {"none", "sessionPut"} : RegisterWithSession("alice", "al@x.io", "pw1", NoPhone, NilUUID, f)
LoginAlice == \E x \in UUIDInputs, f \in {"none", "sign"} : Login("alice", "pw1", x, f)
DoRefresh == \E t \in TokenInputs, f \in RefreshFaults : Refresh(t, f)
DoLogout == \E sid \in 1..MaxSessions, f \in LogoutFaults : Logout(sid, f)
TickSession == \E d \in {1, refreshTokenDur} : Tick(d)

NextSession ==
  \/ RegisterAlice
  \/ LoginAlice
  \/ DoRefresh
  \/ DoLogout
  \/ DoDelete
  \/ TickSession

SpecSession == Init /\ [][NextSession]_vars

(* Verification codes of one account with a phone number: expiry and reuse *)
(* of the one code value the generators issue here.                         *)
RegisterWithPhone ==
  \E f \in {"none", "userPut"} : Register("alice", "al@x.io", "pw1", "+15550100", f)
IssuedCodes == {"AAAAAA"}
DoRequestPasswordRecovery ==
  \E c \in IssuedCodes, f \in {"none", "sendEmail"} : RequestPasswordRecovery("al@x.io", c, f)
DoValidateOTP ==
  \E c \in IssuedCodes, f \in {"none", "verificationDelete"} :
    ValidateOTP("al@x.io", c, NilUUID, f)
DoRequestEmailConfirmation ==
  \E uid \in 1..MaxUsers, c \in IssuedCodes, f \in {"none", "verificationPut"} :
    RequestEmailConfirmation(uid, c, f)
DoValidateEmailToken ==
  \E uid \in 1..MaxUsers, c \in IssuedCodes, f \in {"none", "verificationDelete", "userUpdate"} :
    ValidateEmailToken(uid, c, f)
DoRequestPhoneConfirmation ==
  \E uid \in 1..MaxUsers, c \in IssuedCodes, f \in {"none", "sendSMS"} :
    RequestPhoneConfirmation(uid, c, f)
DoValidatePhoneOTP ==
  \E uid \in 1..MaxUsers, c \in IssuedCodes, f \in {"none", "verificationGet", "verificationDelete"} :
    ValidatePhoneOTP(uid, c, f)
TickVerify == \E d \in {OTPTTL + 1, EmailTTL} : Tick(d)

NextVerify ==
  \/ RegisterWithPhone
  \/ DoRequestPasswordRecovery
  \/ DoValidateOTP
  \/ DoRequestEmailConfirmation
  \/ DoValidateEmailToken
  \/ DoRequestPhoneConfirmation
  \/ DoValidatePhoneOTP
  \/ TTLExpire
  \/ TickVerify

SpecVerify == Init /\ [][NextVerify]_vars

(* Verification codes of one account: a Request replacing a pending code *)
ReissuePasswordRecovery ==
  \E c \in Codes, f \in {"none", "verificationPut", "sendEmail"} :
    RequestPasswordRecovery("al@x.io", c, f)
ReissueEmailConfirmation ==
  \E uid \in 1..MaxUsers, c \in Codes, f \in {"none", "verificationPut", "sendEmail"} :
    RequestEmailConfirmation(uid, c, f)
ReissuePhoneConfirmation ==
  \E uid \in 1..MaxUsers, c \in Codes, f \in {"none", "verificationPut", "sendSMS"} :
    RequestPhoneConfirmation(uid, c, f)
SubmitOTP == \E c \in Codes, f \in {"none", "sign"} : ValidateOTP("al@x.io", c, NilUUID, f)
SubmitEmailToken ==
  \E uid \in 1..MaxUsers, c \in Codes, f \in {"none", "userUpdate"} : ValidateEmailToken(uid, c, f)
SubmitPhoneOTP ==
  \E uid \in 1..MaxUsers, c \in Codes, f \in {"none", "userUpdate"} : ValidatePhoneOTP(uid, c, f)

NextReissue ==
  \/ RegisterWithPhone
  \/ ReissuePasswordRecovery
  \/ ReissueEmailConfirmation
  \/ ReissuePhoneConfirmation
  \/ SubmitOTP
  \/ SubmitEmailToken
  \/ SubmitPhoneOTP

SpecReissue == Init /\ [][NextReissue]_vars

(* The device resolver on its own: client-supplied, absent and *)
(* previously generated UUIDs                                    *)
DeviceUUIDInputs == UUIDInputs \cup {<<"gen", 1>>}
DoResolve ==
  \E x \in DeviceUUIDInputs, uid \in 1..MaxUsers, f \in {"none", "deviceGet", "devicePut"} :
    ResolveDevice(x, uid, f)
DoDeviceSoftDelete == \E did \in 1..MaxDevices : DeviceSoftDelete(did)

NextDevice ==
  \/ DoResolve
  \/ DoDeviceSoftDelete

SpecDevice == Init /\ [][NextDevice]_vars

(* OAuth login of a self-registered account, of a provisioned account *)
(* without password, and of an email no account carries               *)
AlEmail == <<"a", "l", "@", "x", ".", "i", "o">>
BoEmail == <<"b", "o", "@", "x", ".", "i", "o">>
GooglePayload(sub, email, verified) ==
  [sub |-> sub, email |-> email, email_verified |-> verified]
GoodPayloads ==
  {GooglePayload("g1", AlEmail, TRUE), GooglePayload("g2", AlEmail, TRUE),
   GooglePayload("g1", BoEmail, TRUE)}
BadPayloads ==
  {GooglePayload("g1", AlEmail, FALSE), GooglePayload("", AlEmail, TRUE),
   GooglePayload("g1", <<>>, TRUE), GooglePayload("g1", <<" ", " ">>, TRUE)}
(* a payload that fails its checks is rejected before any collaborator *)
(* but the verifier is called, so one call per such payload suffices   *)
GoogleCalls ==
  (GoodPayloads \X UUIDInputs \X {"none", "verify", "getByEmail", "userUpdate", "sessionPut"})
    \cup (BadPayloads \X {NilUUID} \X {"none"})

RegisterLocal == Register("alice", "al@x.io", "pw1", NoPhone, "none")
ProvisionBo == ProvisionAccount("bo", "bo@x.io")
DoLoginWithGoogle ==
  \E c \in GoogleCalls : LoginWithGoogle(c[1], c[2], c[3])

NextGoogle ==
  \/ RegisterLocal
  \/ ProvisionBo
  \/ DoUserUpdate
  \/ DoLoginWithGoogle

SpecGoogle == Init /\ [][NextGoogle]_vars

(* Refresh against sessions that were rotated, logged out or left to *)
(* expire, with the role of the account changed in between          *)
LoginAnyDevice == \E x \in UUIDInputs : Login("alice", "pw1", x, "none")
DoUpdateRole ==
  \E uid \in 1..MaxUsers, r \in {RoleAdmin, RoleUser, "Owner"}, f \in UpdateFaults :
    UpdateRole(uid, r, f)
LogoutOne == \E sid \in 1..MaxSessions, f \in LogoutFaults : Logout(sid, f)

NextRefresh ==
  \/ RegisterLocal
  \/ LoginAnyDevice
  \/ DoRefresh
  \/ LogoutOne
  \/ DoUpdateRole
  \/ TickSession

SpecRefresh == Init /\ [][NextRefresh]_vars

(* Every operation that writes a session, on one account: login, refresh,  *)
(* logout, password recovery, OAuth login and deletion of the user, with    *)
(* the reads of the current session in between.                             *)
LoginLocal == Login("alice", "pw1", NilUUID, "none")
RefreshAny == \E t \in TokenInputs, f \in {"none", "sign"} : Refresh(t, f)
LogoutAny == \E sid \in 1..MaxSessions : Logout(sid, "none")
RecoverRequest == RequestPasswordRecovery("al@x.io", "AAAAAA", "none")
RecoverLogin ==
  \E f \in {"none", "verificationDelete"} : ValidateOTP("al@x.io", "AAAAAA", NilUUID, f)
GoogleLoginAlice == LoginWithGoogle(GooglePayload("g1", AlEmail, TRUE), NilUUID, "none")
DeleteAny == \E uid \in 1..MaxUsers, f \in {"none", "query", "sessionUpdate"} : Delete(uid, f)
DoGetCurrent ==
  \E sid \in 1..(MaxSessions + 1), f \in GetCurrentFaults : GetCurrent(sid, f)

NextLifecycle ==
  \/ RegisterLocal
  \/ LoginLocal
  \/ RefreshAny
  \/ LogoutAny
  \/ RecoverRequest
  \/ RecoverLogin
  \/ GoogleLoginAlice
  \/ DeleteAny
  \/ DoGetCurrent

SpecLifecycle == Init /\ [][NextLifecycle]_vars

(* Two goroutines serving Refresh requests on the sessions of one account *)
MaxRaceTokens == 3
RaceLogin == nextTok < 1 /\ LoginLocal
RaceRefreshLookup ==
  \E g \in Goroutines, t \in TokenInputs : nextTok < MaxRaceTokens /\ RefreshLookup(g, t)
RaceRefreshRotate == \E g \in Goroutines : RefreshRotate(g)
RaceRefreshSign == \E g \in Goroutines : RefreshSign(g)

NextRefreshRace ==
  \/ RegisterLocal
  \/ RaceLogin
  \/ RaceRefreshLookup
  \/ RaceRefreshRotate
  \/ RaceRefreshSign
  \/ TickSession

SpecRefreshRace == Init /\ [][NextRefreshRace]_vars

(* Two goroutines serving ValidateOTP requests for the one code a password *)
(* recovery request issued: no Request follows the first Validate          *)
RaceRecoverRequest ==
  /\ done = {}
  /\ \A g \in Goroutines : calls[g] = Idle
  /\ RecoverRequest
RaceValidateFetch ==
  \E g \in Goroutines, c \in Codes :
    nextTok < MaxRaceTokens /\ ValidateOTPFetch(g, "al@x.io", c, NilUUID)
RaceValidateDelete == \E g \in Goroutines : ValidateOTPDelete(g)
RaceValidateMint == \E g \in Goroutines : ValidateOTPMint(g)
TickOTP == \E d \in {1, OTPTTL + 1} : Tick(d)

NextValidateRace ==
  \/ RegisterLocal
  \/ RaceRecoverRequest
  \/ RaceValidateFetch
  \/ RaceValidateDelete
  \/ RaceValidateMint
  \/ TTLExpire
  \/ TickOTP

SpecValidateRace == Init /\ [][NextValidateRace]_vars

(* Every call that mints a session, on an account an administrator *)
(* disables and enables again                                       *)
SetEnable == \E e \in {0, 1} : UserUpdate(1, e, "none")
RecoverAlice == ValidateOTP("al@x.io", "AAAAAA", NilUUID, "none")

NextDisabledLogin ==
  \/ RegisterLocal
  \/ SetEnable
  \/ LoginLocal
  \/ GoogleLoginAlice
  \/ RecoverRequest
  \/ RecoverAlice

SpecDisabledLogin == Init /\ [][NextDisabledLogin]_vars

(* The Auth middleware in front of the protected routes: the bearer is *)
(* verified and the request goes on to the wrapped handler              *)
Auth(tok) ==
  /\ LET claims == Verify(tok, now)
     IN last' = IF claims.ok
                  THEN Success("Auth", <<tok>>, NoHttp, tok, NoToken, claims.session_id,
                               claims.user_id, claims.device_id)
                  ELSE Failure("Auth", <<tok>>, "invalid or expired token", ErrUnauthorized,
                               writeError(401, "invalid or expired token"))
  /\ UNCHANGED <<users, sessions, devices, verifications, now, ticks, nextTok, rotated,
                 spent, resolved>>
  /\ UNCHANGED <<rlVars, callVars>>

(* the bearer issued along with the session s, when s has not been refreshed *)
BearerOf(s) ==
  {Sign(s.user_id, s.device_id, u.role, s.session_id, s.refresh_expires_at - refreshTokenDur)
   : u \in {x \in users : x.user_id = s.user_id}}

DoAuth == \E tok \in (UNION {BearerOf(s) : s \in sessions}) \cup {NoBearer} : Auth(tok)
TickBearer == \E d \in {1, JWTExpiryDays * 24 * 3600} : Tick(d)

NextAuth ==
  \/ RegisterLocal
  \/ LoginLocal
  \/ LogoutAny
  \/ DeleteAny
  \/ DoAuth
  \/ TickBearer

SpecAuth == Init /\ [][NextAuth]_vars

(* The deletion of an account while a Login, a Refresh or a password *)
(* recovery of that account is under way on another goroutine        *)
MaxDeleteRaceTokens == 2
RaceLoginFetch == nextTok < MaxDeleteRaceTokens /\ LoginFetch(1, "alice", "pw1", NilUUID)
RaceLoginMint == LoginMint(1)
DeleteRaceRefreshLookup ==
  \E t \in TokenInputs : nextTok < MaxDeleteRaceTokens /\ RefreshLookup(1, t)
DeleteRaceRefreshRotate == RefreshRotate(1)
DeleteRaceRefreshSign == RefreshSign(1)
DeleteRaceValidateFetch ==
  nextTok < MaxDeleteRaceTokens /\ ValidateOTPFetch(1, "al@x.io", "AAAAAA", NilUUID)
DeleteRaceValidateDelete == ValidateOTPDelete(1)
DeleteRaceValidateMint == ValidateOTPMint(1)
DeleteAlice == Delete(1, "none")

NextDeleteRace ==
  \/ RegisterLocal
  \/ RaceLoginFetch
  \/ RaceLoginMint
  \/ DeleteRaceRefreshLookup
  \/ DeleteRaceRefreshRotate
  \/ DeleteRaceRefreshSign
  \/ RaceRecoverRequest
  \/ DeleteRaceValidateFetch
  \/ DeleteRaceValidateDelete
  \/ DeleteRaceValidateMint
  \/ DeleteAlice

SpecDeleteRace == Init /\ [][NextDeleteRace]_vars

(* Two OAuth sign-ins in flight for the email of a self-registered     *)
(* account, presenting the same or different subjects                   *)
LinkPayloads == {GooglePayload("g1", AlEmail, TRUE), GooglePayload("g2", AlEmail, TRUE)}
LinkRaceFetch ==
  \E g \in Goroutines, p \in LinkPayloads :
    nextTok < MaxRaceTokens /\ GoogleFetch(g, p, NilUUID)
LinkRaceLink == \E g \in Goroutines : GoogleLink(g)
LinkRaceMint == \E g \in Goroutines : GoogleMint(g)

NextLinkRace ==
  \/ RegisterLocal
  \/ LinkRaceFetch
  \/ LinkRaceLink
  \/ LinkRaceMint

SpecLinkRace == Init /\ [][NextLinkRace]_vars

(* Account creation in flight on two goroutines: registrations of one *)
(* username and email, and OAuth sign-ins for that email.  GetByEmail  *)
(* answers an email no account carries with a plain error, so a        *)
(* sign-in for it returns before the username derivation.              *)
CreatePayloads == {GooglePayload("g1", BoEmail, TRUE), GooglePayload("g2", BoEmail, TRUE)}
CreateRaceGoogleFetch ==
  \E g \in Goroutines, p \in CreatePayloads :
    nextTok < MaxRaceTokens /\ GoogleFetch(g, p, NilUUID)
CreateRaceGoogleLink == \E g \in Goroutines : GoogleLink(g)
CreateRaceGoogleMint == \E g \in Goroutines : GoogleMint(g)
CreateRaceRegisterFetch ==
  \E g \in Goroutines :
    nextTok < MaxRaceTokens /\ RegisterFetch(g, "bo", "bo@x.io", "pw1", NoPhone, NilUUID)
CreateRaceRegisterPut == \E g \in Goroutines : RegisterPut(g)
CreateRaceRegisterMint == \E g \in Goroutines : RegisterMint(g)

NextCreateRace ==
  \/ CreateRaceGoogleFetch
  \/ CreateRaceGoogleLink
  \/ CreateRaceGoogleMint
  \/ CreateRaceRegisterFetch
  \/ CreateRaceRegisterPut
  \/ CreateRaceRegisterMint

SpecCreateRace == Init /\ [][NextCreateRace]_vars

(* Resolve in flight on two goroutines, for a UUID the client supplies *)
(* and for none                                                        *)
MaxRaceDevices == 3
InFlightPuts == Cardinality({g \in Goroutines : calls[g] # Idle})
ResolveRaceLookup ==
  \E g \in Goroutines, x \in UUIDInputs, uid \in 1..MaxUsers :
    /\ Cardinality(devices) + InFlightPuts < MaxRaceDevices
    /\ ResolveLookup(g, x, uid)
ResolveRacePut == \E g \in Goroutines : ResolvePut(g)

NextResolveRace ==
  \/ ResolveRaceLookup
  \/ ResolveRacePut

SpecResolveRace == Init /\ [][NextResolveRace]_vars

(* Two accounts signing in from one client: the second login supplies *)
(* the device UUID that the first login registered                     *)
RegisterBo == Register("bo", "bo@x.io", "pw2", NoPhone, "none")
LoginEither ==
  \E c \in {<<"alice", "pw1">>, <<"bo", "pw2">>}, x \in UUIDInputs :
    Login(c[1], c[2], x, "none")

NextSharedDevice ==
  \/ RegisterLocal
  \/ RegisterBo
  \/ LoginEither

SpecSharedDevice == Init /\ [][NextSharedDevice]_vars

(* Provider.Sign and Provider.Verify called on their own *)
JwtSign(v) ==
  /\ last' = [Success("Sign", <<v>>, NoHttp, SignedString(v[1], v[2], v[3], v[4], now),
                      NoToken, NoId, NoId, NoId)
              EXCEPT !.user_id = NoId]
  /\ UNCHANGED <<users, sessions, devices, verifications, now, ticks, nextTok, rotated,
                 spent, resolved>>
  /\ UNCHANGED <<rlVars, callVars>>

JwtVerify(kind, v, issuedAt) ==
  /\ issuedAt <= now
  /\ LET tok == Present(kind, SignedString(v[1], v[2], v[3], v[4], issuedAt))
         c == ParseWithClaims(tok, now)
     IN last' = [op |-> "Verify", in |-> <<kind, v, issuedAt>>,
                 err |-> IF c.ok THEN ErrNone ELSE ErrInternal, msg |-> "",
                 http |-> NoHttp, bearer |-> tok, refresh |-> NoToken,
                 session_id |-> NoId, user_id |-> NoId, device_id |-> NoId,
                 claims |-> c]
  /\ UNCHANGED <<users, sessions, devices, verifications, now, ticks, nextTok, rotated,
                 spent, resolved>>
  /\ UNCHANGED <<rlVars, callVars>>

(* The code generator on its own.  The draws are taken from a family of *)
(* index sequences in which every index occurs at every position.         *)
GenerateOTP(idxs, flt) ==
  /\ LET g == generateOTP(idxs, flt)
     IN last' = [op |-> "generateOTP", in |-> <<idxs>>, err |-> g.err, msg |-> "",
                 http |-> NoHttp, bearer |-> NoBearer, refresh |-> NoToken,
                 session_id |-> NoId, user_id |-> NoId, device_id |-> NoId,
                 code |-> g.code]
  /\ UNCHANGED <<users, sessions, devices, verifications, now, ticks, nextTok, rotated,
                 spent, resolved>>
  /\ UNCHANGED <<rlVars, callVars>>

OtpDraws ==
  {[i \in 1..OtpLength |-> (k + i * j) % Len(otpChars)] :
     k \in 0..(Len(otpChars) - 1), j \in 0..(OtpLength - 1)}
DoGenerateOTP == \E idxs \in OtpDraws, f \in {"none", "rand"} : GenerateOTP(idxs, f)

NextOTP ==
  \/ DoGenerateOTP

SpecOTP == Init /\ [][NextOTP]_vars

(* The signer on its own: tokens for claim strings with and without *)
(* characters the encoder escapes, presented before, at and after    *)
(* their expiry                                                        *)
JwtIds == {<<"i", "d">>, <<"\"">>}
JwtRoles == {<<"U", "s", "e", "r">>, <<"\\", "n">>}
JwtClaimValues == JwtIds \X JwtIds \X JwtRoles \X JwtIds
IssueTimes == {0, 1}
DoJwtSign == \E v \in JwtClaimValues : JwtSign(v)
DoJwtVerify ==
  \E kind \in TokenKinds, v \in JwtClaimValues, t \in IssueTimes : JwtVerify(kind, v, t)
TickJwt == \E d \in {1, JWTExpiryDays * 24 * 3600 - 1} : Tick(d)

NextJwt ==
  \/ DoJwtSign
  \/ DoJwtVerify
  \/ TickJwt

SpecJwt == Init /\ [][NextJwt]_vars

(* Username derivation on its own, against a store in which the first k *)
(* names of a sequence base, base1, base2, ... are registered, one of    *)
(* them possibly left out                                                 *)
DeriveEmails ==
  {<<"B", "o", "b", "@", "x", ".", "i", "o">>,
   <<"+", "@", "x", ".", "i", "o">>,
   <<"B", ".", "o", "+", "7", "@", "x">>}
DeriveBases == {"bob", "user", "b.o7"}

AccountNamed(name, j) ==
  [NoUser EXCEPT !.user_id = j + 1, !.username = name,
                 !.email = ToString(j) \o "@y.io",
                 !.password_hash = GenerateFromPassword("pw1"), !.role = RoleUser,
                 !.enable = 1, !.enable_av = "N"]

InitDerive ==
  /\ \E base \in DeriveBases, k \in 0..(MaxSuffix + 1), gap \in {-1, 1, MaxSuffix} :
       users = {AccountNamed(Candidate(base, j), j) : j \in (0..(k - 1)) \ {gap}}
  /\ sessions = {}
  /\ devices = {}
  /\ verifications = {}
  /\ now = 0
  /\ ticks = 0
  /\ nextTok = 0
  /\ last = NoResult
  /\ rotated = {}
  /\ spent = {}
  /\ resolved = {}
  /\ limiters = [ip \in {} |-> NewLimiter]
  /\ rlNow = 0
  /\ rlTicks = 0
  /\ rlSweepAt = CleanupPeriod
  /\ rlLast = NoRequest
  /\ rlRun = [ip \in {} |-> NewRun]
  /\ calls = [g \in Workers |-> Idle]
  /\ done = {}
  /\ mu = {}
  /\ ctx = FALSE

DoDeriveUsername == \E e \in DeriveEmails : DeriveUsername(e)

NextDerive == DoDeriveUsername

SpecDerive == InitDerive /\ [][NextDerive]_vars

(* The rate limiter on its own *)
DoLimit == \E ip \in IPs : Limit(ip)
DoRlTick == \E d \in {1, RefillInterval, CleanupPeriod} : RlTick(d)

NextLimiter ==
  \/ DoLimit
  \/ cleanup
  \/ DoRlTick

SpecLimiter == Init /\ [][NextLimiter]_vars

(* The rate limiter with its goroutines interleaved: two request goroutines *)
(* and the cleanup goroutine                                                *)
MaxRaceRequests == 12
MaxOtherRequests == 1
Tallies == {t \in done : t.op = "Limit"}
(* the requests of ip answered so far, and how many each ip sends: a burst *)
(* from one address, a request or two from the other                       *)
RECURSIVE SumServed(_)
SumServed(ts) ==
  IF ts = {} THEN 0
  ELSE LET t == CHOOSE x \in ts : TRUE IN t.served + SumServed(ts \ {t})
ServedOf(ip) == SumServed({t \in Tallies : t.ip = ip})
RequestBudget(ip) == IF ip = "10.0.0.1" THEN MaxRaceRequests ELSE MaxOtherRequests
RaceLimitGet ==
  \E g \in Goroutines, ip \in IPs :
    /\ ServedOf(ip) + Cardinality({h \in InLimit : calls[h].ip = ip}) < RequestBudget(ip)
    /\ LimitGet(g, ip)
RaceLimitGetInsert == \E g \in Goroutines : LimitGetInsert(g)
RaceLimitGetReturn == \E g \in Goroutines : LimitGetReturn(g)
RaceLimitAllow == \E g \in Goroutines : LimitAllow(g)
RaceRlTick == rlTicks < 1 /\ RlTick(CleanupPeriod)

(* The process has just started, or it has run for three cleanup periods   *)
(* and the third timer is firing: the map then holds the bucket of an      *)
(* address whose only request came at the instant born, its last access    *)
(* older than the idle window (born = 0) or exactly as old (born = 300000). *)
SweepInstant == 3 * CleanupPeriod
AgedEntry(born) ==
  [tokens |-> (Burst - 1) * RefillInterval, last |-> born, lastSeen |-> born, id |-> 1]

InitLimiterRace ==
  /\ users = {}
  /\ sessions = {}
  /\ devices = {}
  /\ verifications = {}
  /\ now = 0
  /\ ticks = 0
  /\ nextTok = 0
  /\ last = NoResult
  /\ rotated = {}
  /\ spent = {}
  /\ resolved = {}
  /\ rlTicks = 0
  /\ rlLast = NoRequest
  /\ rlRun = [ip \in {} |-> NewRun]
  /\ calls = [g \in Workers |-> Idle]
  /\ mu = {}
  /\ ctx = FALSE
  /\ \/ /\ limiters = [ip \in {} |-> NewLimiter]
        /\ rlNow = 0
        /\ rlSweepAt = CleanupPeriod
        /\ done = {}
     \/ \E born \in {0, CleanupPeriod} :
          /\ limiters = [ip \in {"10.0.0.2"} |-> AgedEntry(born)]
          /\ rlNow = SweepInstant
          /\ rlSweepAt = SweepInstant
          /\ done = {[op |-> "create", ip |-> "10.0.0.2", at |-> born, id |-> 1]}

NextLimiterRace ==
  \/ RaceLimitGet
  \/ RaceLimitGetInsert
  \/ RaceLimitGetReturn
  \/ RaceLimitAllow
  \/ cleanupWake
  \/ cleanupLock
  \/ cleanupVisit
  \/ cleanupDelete
  \/ cleanupUnlock
  \/ RaceRlTick

SpecLimiterRace == InitLimiterRace /\ [][NextLimiterRace]_vars

(* One address served by two request goroutines over three cleanup     *)
(* periods, the cleanup goroutine running in between.  Goroutine 2     *)
(* takes the request that arrives when the process starts and may stay *)
(* between get and Allow while the timers fire; goroutine 1 takes the  *)
(* requests that follow.                                                *)
MaxStallTicks == 3
MaxStallRequests == 11
StallLimitGet ==
  \E g \in Goroutines :
    /\ ServedOf("10.0.0.1") + Cardinality(InLimit) < MaxStallRequests
    /\ g = 2 => rlNow = 0 /\ Tallies = {}
    /\ LimitGet(g, "10.0.0.1")
StallRlTick == rlTicks < MaxStallTicks /\ RlTick(CleanupPeriod)

NextLimiterStall ==
  \/ StallLimitGet
  \/ RaceLimitGetInsert
  \/ RaceLimitGetReturn
  \/ RaceLimitAllow
  \/ cleanupWake
  \/ cleanupLock
  \/ cleanupVisit
  \/ cleanupDelete
  \/ cleanupUnlock
  \/ StallRlTick

SpecLimiterStall == Init /\ [][NextLimiterStall]_vars

(* The limiter until and after its context is cancelled.  Every goroutine *)
(* that can run does run in the end, and sync.Mutex hands the lock to a    *)
(* goroutine that keeps waiting for it.                                    *)
MaxLifeRequests == 1
LifeLimitGet ==
  \E g \in Goroutines, ip \in IPs :
    /\ ServedOf(ip) + Cardinality({h \in InLimit : calls[h].ip = ip}) < MaxLifeRequests
    /\ LimitGet(g, ip)
LifeRlTick == rlTicks < 2 /\ RlTick(CleanupPeriod)

NextLimiterLife ==
  \/ LifeLimitGet
  \/ RaceLimitGetInsert
  \/ RaceLimitGetReturn
  \/ RaceLimitAllow
  \/ cleanupWake
  \/ cleanupLock
  \/ cleanupVisit
  \/ cleanupDelete
  \/ cleanupUnlock
  \/ cleanupReturn
  \/ Cancel
  \/ LifeRlTick

SpecLimiterLife ==
  /\ InitLimiterRace
  /\ [][NextLimiterLife]_vars
  /\ WF_vars(RaceLimitGetInsert)
  /\ WF_vars(RaceLimitGetReturn)
  /\ SF_vars(cleanupLock)
  /\ WF_vars(cleanupVisit)
  /\ WF_vars(cleanupDelete)
  /\ WF_vars(cleanupUnlock)
  /\ WF_vars(cleanupReturn)

----------------------------------------------------------------------------
(* Claims about Login *)

LoginResolvesTo(i) == {u \in users : u.username = i \/ u.email = i}

LoginSucceededFor(u) ==
  /\ last'.err = ErrNone
  /\ \E s \in sessions' :
       /\ s \notin sessions
       /\ sessions' = sessions \cup {s}
       /\ s.user_id = u.user_id
       /\ s.enable
       /\ s.refresh_token # NoToken
       /\ s.refresh_token = last'.refresh
       /\ s.refresh_expires_at = now + refreshTokenDur
       /\ LET c == Verify(last'.bearer, now)
          IN c.ok /\ c.user_id = u.user_id /\ c.role_id = u.role
                  /\ c.session_id = s.session_id

\* C3: for any enabled user whose stored hash matches the submitted password,
\* Login with the user's username or email as identifier (no collaborator
\* failing) succeeds, creates exactly one new enabled session of that user with
\* a non-empty refresh token and expiry now + refreshTokenDur, and returns a
\* bearer whose Verify yields the user's id and role and the new session's id.
C3_LoginSucceeds ==
  [][\A i \in Idents, pw \in Passwords, x \in UUIDInputs :
       Login(i, pw, x, "none") =>
         \A u \in LoginResolvesTo(i) :
           (u.enable = 1 /\ CompareHashAndPassword(u.password_hash, pw))
             => LoginSucceededFor(u)]_vars

\* C4: a Login whose identifier names only disabled accounts fails with
\* Unauthorized, whatever the password, and creates no device and no session.
C4_DisabledLoginFails ==
  [][(last'.op = "Login"
        /\ LoginResolvesTo(last'.in[1]) # {}
        /\ \A u \in LoginResolvesTo(last'.in[1]) : u.enable = 0)
      => (last'.err = ErrUnauthorized /\ devices' = devices /\ sessions' = sessions)]_vars

C4_Witness ==
  /\ last.op = "Login"
  /\ last.err = ErrUnauthorized
  /\ LoginResolvesTo(last.in[1]) # {}
  /\ \A u \in LoginResolvesTo(last.in[1]) :
       u.enable = 0 /\ CompareHashAndPassword(u.password_hash, last.in[2])

\* C5: every Login that fails with Unauthorized (no such identifier, account
\* disabled, password mismatch) returns the same error value and the same HTTP
\* response, so nothing outward tells which precondition failed.
C5_LoginFailuresIndistinguishable ==
  (last.op = "Login" /\ last.err = ErrUnauthorized)
    => (last.msg = "invalid credentials"
        /\ last.http = writeError(401, "invalid credentials: unauthorized"))

----------------------------------------------------------------------------
(* Claims about Refresh *)

\* C1: once a Refresh presenting token t has returned success, every later
\* Refresh presenting t fails with Unauthorized and changes no session record.
C1_RefreshSingleUse ==
  [][(last'.op = "Refresh" /\ last'.in[1] \in rotated)
      => (last'.err = ErrUnauthorized /\ sessions' = sessions)]_vars

C1_Witness ==
  /\ last.op = "Refresh"
  /\ last.in[1] \in rotated
  /\ last.err = ErrUnauthorized
  /\ \E s \in sessions : s.enable /\ s.refresh_expires_at >= now

----------------------------------------------------------------------------
(* Claims about verification codes *)

ValidateOps == {"ValidateOTP", "ValidateEmailToken", "ValidatePhoneOTP"}

\* C2: once a Validate call for (user, type) has returned success, every later
\* Validate call submitting that same code, with no Request for (user, type)
\* in between, fails: a stored code validates at most once.
C2_CodeValidatesOnce ==
  [][(last'.op \in ValidateOps /\ <<last'.op, last'.in>> \in spent)
      => last'.err # ErrNone]_vars

(* the record of (userID, verType) holds the submitted code and its expiry has passed *)
Expired(userID, verType, code) ==
  \E v \in VerificationGet(userID, verType) : v.code = code /\ v.expires_at < now

Denied ==
  /\ last'.err = ErrUnauthorized
  /\ sessions' = sessions
  /\ users' = users

\* C6: a Validate call made after the stored record's expiry timestamp
\* (request time + 15 minutes for the recovery and phone OTPs, + 24 hours for
\* the email token) and submitting the stored code fails with Unauthorized,
\* mints no session and flips no user flag, whichever later collaborator
\* would fail.
C6_ExpiredCodeFails ==
  [][/\ (last'.op = "ValidateOTP"
           /\ \E u \in UserGetByEmail(last'.in[1]) \ {NoUser} :
                 Expired(u.user_id, "otp", last'.in[2]))
        => \A x \in UUIDInputs, f \in ValidateOTPFaults \ {"getByEmail", "verificationGet"} :
             ValidateOTP(last'.in[1], last'.in[2], x, f) => Denied
     /\ (last'.op = "ValidateEmailToken" /\ Expired(last'.in[1], "email", last'.in[2]))
        => \A f \in ConfirmFaults \ {"verificationGet"} :
             ValidateEmailToken(last'.in[1], last'.in[2], f) => Denied
     /\ (last'.op = "ValidatePhoneOTP" /\ Expired(last'.in[1], "phone", last'.in[2]))
        => \A f \in ConfirmFaults \ {"verificationGet"} :
             ValidatePhoneOTP(last'.in[1], last'.in[2], f) => Denied]_vars

C6_Witness ==
  /\ last.op = "ValidateEmailToken"
  /\ last.err = ErrUnauthorized
  /\ Expired(last.in[1], "email", last.in[2])
  /\ \E v \in VerificationGet(last.in[1], "otp") : v.expires_at < now
  /\ \A u \in users : ~u.email_confirmed

AtMostOnePerType ==
  \A v, w \in verifications : (v.user_id = w.user_id /\ v.type = w.type) => v = w

OtherRecords(vs, userID, verType) ==
  {v \in vs : ~(v.user_id = userID /\ v.type = verType)}

(* the step wrote the record of (userID, verType) with the code it issued *)
(* and left every other record alone                                       *)
Replaced(userID, verType, code, ttl) ==
  /\ {v \in verifications' : v.user_id = userID /\ v.type = verType}
       = {NewVerification(userID, verType, code, ttl)}
  /\ OtherRecords(verifications', userID, verType) = OtherRecords(verifications, userID, verType)

Wrote == last'.err = ErrNone \/ verifications' # verifications

RequestOps == {"RequestPasswordRecovery", "RequestEmailConfirmation",
               "RequestPhoneConfirmation"}

RejectsOTP(email, code) ==
  \A x \in UUIDInputs, f \in ValidateOTPFaults :
    \A o \in ValidateOTPOutcomes(email, code, x, f) : o.last.err # ErrNone

RejectsEmailToken(userID, code) ==
  \A f \in ConfirmFaults :
    \A o \in ValidateEmailTokenOutcomes(userID, code, f) : o.last.err # ErrNone

RejectsPhoneOTP(userID, code) ==
  \A f \in ConfirmFaults :
    \A o \in ValidatePhoneOTPOutcomes(userID, code, f) : o.last.err # ErrNone

\* C7: in every reachable state at most one verification record exists per
\* (user, type); a Request that writes leaves exactly the record it issued for
\* its (user, type), leaves the records of the other types and users untouched,
\* and from then on every Validate submitting the replaced code (when it
\* differs from the new one) fails.
C7_OneCodePerType ==
  /\ []AtMostOnePerType
  /\ [][\A c \in Codes : (last'.op \in RequestOps /\ last'.in[2] = c /\ Wrote) =>
          /\ \A e \in Emails : (last'.op = "RequestPasswordRecovery" /\ last'.in[1] = e) =>
               \A u \in UserGetByEmail(e) \ {NoUser} :
                 /\ Replaced(u.user_id, "otp", c, OTPTTL)
                 /\ \A old \in VerificationGet(u.user_id, "otp") :
                      old.code # c => RejectsOTP(e, old.code)'
          /\ \A uid \in 1..MaxUsers :
               (last'.op = "RequestEmailConfirmation" /\ last'.in[1] = uid) =>
                 /\ Replaced(uid, "email", c, EmailTTL)
                 /\ \A old \in VerificationGet(uid, "email") :
                      old.code # c => RejectsEmailToken(uid, old.code)'
          /\ \A uid \in 1..MaxUsers :
               (last'.op = "RequestPhoneConfirmation" /\ last'.in[1] = uid) =>
                 /\ Replaced(uid, "phone", c, OTPTTL)
                 /\ \A old \in VerificationGet(uid, "phone") :
                      old.code # c => RejectsPhoneOTP(uid, old.code)']_vars

C7_Witness ==
  /\ last.op = "ValidateOTP"
  /\ last.msg = "invalid OTP"
  /\ \E u \in UserGetByEmail(last.in[1]) \ {NoUser} :
       /\ \E v \in VerificationGet(u.user_id, "otp") : v.code # last.in[2]
       /\ VerificationGet(u.user_id, "email") # {}
       /\ VerificationGet(u.user_id, "phone") # {}
       /\ \E s \in sessions : s.user_id = u.user_id

----------------------------------------------------------------------------
(* Claims about the device resolver *)

\* C8: once a Resolve call with UUID x has returned a device, every later
\* Resolve call with the same x creates no further device record, returns the
\* same device id whenever it returns a device, and does return one when no
\* store call fails.
C8_ResolveIdempotent ==
  [][(last'.op = "Resolve" /\ last'.in[1] # NilUUID
        /\ \E r \in resolved : r[1] = last'.in[1])
      => /\ devices' = devices
         /\ last'.err = ErrNone
              => \A r \in resolved : r[1] = last'.in[1] => r[2] = last'.device_id
         /\ ResolveDevice(last'.in[1], last'.in[2], "none") => last'.err = ErrNone]_vars

C8_Witness ==
  /\ last.op = "Resolve"
  /\ last.err = ErrNone
  /\ last.in[1] # NilUUID
  /\ \E d \in devices :
       d.device_id = last.device_id /\ d.uuid = last.in[1] /\ d.user_id # last.in[2]

\* C9: when a UUID is supplied and the device lookup fails with an error other
\* than not-found, Resolve returns that error as it is and creates no device
\* record; a device record is created only when no UUID was supplied or no
\* device carries the supplied UUID.
C9_LookupErrorPropagates ==
  [][last'.op = "Resolve"
      => /\ (last'.in[1] # NilUUID /\ ResolveDevice(last'.in[1], last'.in[2], "deviceGet"))
              => (last'.err = ErrDeviceQuery /\ last'.msg = "" /\ devices' = devices)
         /\ devices' # devices
              => (last'.in[1] = NilUUID \/ DeviceGetByUUID(last'.in[1]) = {})]_vars

C9_Witness ==
  /\ last.op = "Resolve"
  /\ last.err = ErrDeviceQuery
  /\ last.in[1] # NilUUID
  /\ DeviceGetByUUID(last.in[1]) = {}
  /\ devices # {}

----------------------------------------------------------------------------
(* Claims about the rate limiter *)

Admitted == rlLast'.status = 200 /\ rlLast'.handled
Rejected == rlLast'.status = 429 /\ ~rlLast'.handled

(* the requests the current bucket of ip has seen, none when there is no bucket *)
RunOf(ip) == IF ip \in DOMAIN rlRun THEN rlRun[ip] ELSE NewRun

\* C10: of the requests of one IP that arrive at the instant its bucket is
\* created (no refill in between), the first Burst are admitted and the next
\* one is rejected with 429 without the wrapped handler being invoked; a
\* request of that IP arriving one refill interval (1/rate) or more after a
\* rejected one, with none in between, is admitted.
C10_BurstThenRefill ==
  [][\A ip \in IPs : (rlLast'.op = "Limit" /\ rlLast'.ip = ip) =>
       /\ (RunOf(ip).born = rlNow /\ RunOf(ip).count < Burst) => Admitted
       /\ (RunOf(ip).born = rlNow /\ RunOf(ip).count = Burst) => Rejected
       /\ (RunOf(ip).rejectedAt >= 0 /\ rlNow >= RunOf(ip).rejectedAt + RefillInterval)
            => Admitted]_vars

C10_Witness ==
  /\ rlLast.op = "Limit"
  /\ rlLast.status = 200
  /\ rlLast.ip \in DOMAIN rlRun
  /\ rlRun[rlLast.ip].count = Burst + 2
  /\ rlRun[rlLast.ip].born + RefillInterval = rlNow

----------------------------------------------------------------------------
(* Claims about username derivation *)

ExpectedBase(email) ==
  CASE email = "Bob@x.io" -> "bob"
    [] email = "+@x.io" -> "user"
    [] email = "B.o+7@x" -> "b.o7"

FreeSuffixes(base) ==
  {k \in 0..MaxSuffix : Candidate(base, k) \notin {u.username : u \in users}}

\* C11: deriveUsername returns the first name no stored user carries in the
\* sequence base, base1, ..., base99 (base the sanitized lower-cased local-part
\* of the email, or "user" when nothing is left of it), fails with Conflict
\* when all hundred names are taken, and makes at most 100 lookups.
C11_DerivesFirstFreeName ==
  [][last'.op = "deriveUsername" =>
       LET free == FreeSuffixes(ExpectedBase(last'.in[1]))
       IN /\ last'.lookups <= MaxSuffix + 1
          /\ free # {} =>
                /\ last'.err = ErrNone
                /\ \E k \in free :
                     /\ \A j \in free : k <= j
                     /\ last'.name = Candidate(ExpectedBase(last'.in[1]), k)
          /\ free = {} => last'.err = ErrConflict]_vars

----------------------------------------------------------------------------
(* Claims about the OAuth login *)

GoogleWroteNothing == users' = users /\ devices' = devices /\ sessions' = sessions

BadPayload(p) == ~p.email_verified \/ TrimSpace(p.email) = <<>> \/ p.sub = ""

\* C12: when the payload the verifier returned has emailVerified false, an
\* empty or whitespace-only email, or an empty subject, LoginWithGoogle returns
\* Unauthorized and writes no user, no device and no session.
C12_BadPayloadRejected ==
  [][(last'.op = "LoginWithGoogle" /\ BadPayload(last'.in[1]))
      => \A f \in GoogleFaults \ {"verify"} :
           LoginWithGoogle(last'.in[1], last'.in[2], f)
             => (last'.err = ErrUnauthorized /\ GoogleWroteNothing)]_vars

C12_Witness ==
  /\ last.op = "LoginWithGoogle"
  /\ last.err = ErrUnauthorized
  /\ ~last.in[1].email_verified
  /\ last.in[1].sub # ""
  /\ \E u \in users :
       /\ u.email = Join(last.in[1].email)
       /\ u.enable = 1
       /\ u.password_hash # NoPasswordHash

(* the account the lookup by the payload's email returns *)
FoundByEmail(p) == {u \in users : u.email = Join(p.email) /\ u.enable_av = "N"}

LookupFaults == {"verify", "getByEmail"}

\* C13: when the account found by the token's email stores a non-empty
\* subject that differs from the token's subject, LoginWithGoogle returns
\* Unauthorized and writes nothing.
C13_SubjectMismatchRejected ==
  [][(/\ last'.op = "LoginWithGoogle"
      /\ ~BadPayload(last'.in[1])
      /\ \E u \in FoundByEmail(last'.in[1]) : u.google_sub \notin {"", last'.in[1].sub})
      => \A f \in GoogleFaults \ LookupFaults :
           LoginWithGoogle(last'.in[1], last'.in[2], f)
             => (last'.err = ErrUnauthorized /\ GoogleWroteNothing)]_vars

C13_Witness ==
  /\ last.op = "LoginWithGoogle"
  /\ last.err = ErrUnauthorized
  /\ ~BadPayload(last.in[1])
  /\ \E u \in FoundByEmail(last.in[1]) :
       u.enable = 1 /\ u.google_sub \notin {"", last.in[1].sub}

C15_LinkIsStored ==
  [][(/\ last'.op = "LoginWithGoogle"
      /\ last'.err = ErrNone
      /\ \E u \in FoundByEmail(last'.in[1]) :
           u.google_sub = "" /\ u.password_hash # NoPasswordHash)
      => \E v \in users' :
           /\ v.email = Join(last'.in[1].email)
           /\ v.google_sub = last'.in[1].sub
           /\ v.auth_provider = AuthProviderGoogle]_vars

----------------------------------------------------------------------------
(* Claims about the session lifecycle *)

(* a disabled session is refused by GetCurrent and by Refresh with its *)
(* token, whatever else fails, and Refresh leaves the table as it is    *)
DisabledRejected ==
  \A s \in sessions :
    ~s.enable =>
      /\ \A r \in GetCurrentResults(s.session_id, "none") : r.err = ErrUnauthorized
      /\ \A f \in RefreshFaults :
           \A o \in RefreshOutcomes(s.refresh_token, f) :
             o.last.err = ErrUnauthorized /\ o.sessions = sessions

\* C16: Logout(sessionID) only sets that session's enable flag to false: no
\* session record is removed or added and no other session changes; afterwards
\* GetCurrent(sessionID) and Refresh with that session's refresh token fail with
\* Unauthorized.
C16_LogoutDisablesOnly ==
  [][/\ (last'.op = "Logout" /\ last'.err = ErrNone)
          => /\ sessions' = {IF s.session_id = last'.in[1]
                                THEN [s EXCEPT !.enable = FALSE] ELSE s : s \in sessions}
             /\ Cardinality(sessions') = Cardinality(sessions)
             /\ \E s \in sessions' : s.session_id = last'.in[1] /\ ~s.enable
             /\ users' = users /\ devices' = devices /\ verifications' = verifications
     /\ DisabledRejected']_vars

C16_Witness ==
  /\ last.op = "Logout"
  /\ last.err = ErrNone
  /\ \E s, t \in sessions :
       /\ s.session_id = last.in[1] /\ ~s.enable
       /\ t.session_id # last.in[1] /\ t.enable

\* C17: session records are never removed and a disabled session is never
\* enabled again: over Login, Refresh, Logout, recovery, OAuth login and user
\* deletion every session id stays, its enable flag changes only from true to
\* false, and Refresh changes nothing on a session but its refresh token and
\* expiry (the update time is not modelled).
C17_SessionsOnlyGrowAndDisable ==
  [][/\ \A s \in sessions :
          \E t \in sessions' :
            /\ t.session_id = s.session_id
            /\ t.enable => s.enable
            /\ t.user_id = s.user_id /\ t.device_id = s.device_id
     /\ last'.op = "Refresh"
          => /\ Cardinality(sessions') = Cardinality(sessions)
             /\ \A s \in sessions :
                  \E t \in sessions' :
                    t = [s EXCEPT !.refresh_token = t.refresh_token,
                                  !.refresh_expires_at = t.refresh_expires_at]]_vars

C17_Witness ==
  /\ last.op = "Delete"
  /\ last.err = ErrNone
  /\ rotated # {}
  /\ Cardinality(sessions) = MaxSessions
  /\ \A s \in sessions : ~s.enable

\* C18: GetCurrent returns the session with the user attached only if the
\* session exists, is enabled and its user exists; a GetCurrent that fails
\* without a failure of the tables themselves fails with Unauthorized.
C18_GetCurrentUnauthorized ==
  [][last'.op = "GetCurrent"
      => (GetCurrent(last'.in[1], "none")
            => /\ last'.err = ErrNone
                    => /\ last'.session \in sessions
                       /\ last'.session.session_id = last'.in[1]
                       /\ last'.session.enable
                       /\ last'.user \in users
                       /\ last'.user.user_id = last'.session.user_id
               /\ last'.err # ErrNone => last'.err = ErrUnauthorized)]_vars

\* C19: Refresh returns Unauthorized and leaves every session record as it
\* was (no rotation) when the presented token matches no session, matches a
\* disabled session, or matches a session whose refresh expiry has passed.
C19_RefreshRejectsWithoutRotation ==
  [][(/\ last'.op = "Refresh"
      /\ \A s \in sessions :
           s.refresh_token = last'.in[1] => (~s.enable \/ s.refresh_expires_at < now))
      => (last'.err = ErrUnauthorized /\ sessions' = sessions)]_vars

C19_Witness ==
  /\ last.op = "Refresh"
  /\ last.err = ErrUnauthorized
  /\ \E s \in sessions :
       s.refresh_token = last.in[1] /\ s.enable /\ s.refresh_expires_at < now

\* C20: a successful Refresh stores the refresh token it returns and the
\* expiry now + the configured duration on the session the presented token
\* belonged to, and returns a bearer with that session's id, device id and
\* user id and the role the user record holds at the time of the refresh.
C20_RefreshRotatesAndSignsCurrentRole ==
  [][(last'.op = "Refresh" /\ last'.err = ErrNone)
      => \E s \in sessions :
           /\ s.refresh_token = last'.in[1]
           /\ last'.refresh # last'.in[1]
           /\ [s EXCEPT !.refresh_token = last'.refresh,
                        !.refresh_expires_at = now + RefreshTokenExpiryDays * 24 * 3600]
                \in sessions'
           /\ last'.bearer.session_id = s.session_id
           /\ last'.bearer.device_id = s.device_id
           /\ last'.bearer.user_id = s.user_id
           /\ \E u \in users : u.user_id = s.user_id /\ last'.bearer.role_id = u.role]_vars

C20_Witness ==
  /\ last.op = "Refresh"
  /\ last.err = ErrNone
  /\ now > 0
  /\ last.bearer.role_id = RoleAdmin
  /\ \E s \in sessions :
       /\ s.refresh_token = last.refresh
       /\ s.refresh_expires_at = now + RefreshTokenExpiryDays * 24 * 3600

----------------------------------------------------------------------------
(* Claims about the errors of the verification-code calls *)

\* C21: no Validate call (password recovery, email confirmation, phone
\* confirmation) returns NotFound: an absent record, a mismatched code and an
\* expired code all give Unauthorized.
C21_ValidateNeverNotFound ==
  [][last'.op \in ValidateOps => last'.err # ErrNotFound]_vars

(* a Validate call whose deletion of the spent record fails returns what *)
(* the same call returns when the deletion works                          *)
ValidateSurvivesCleanup ==
  /\ (last'.op = "ValidateOTP"
        /\ ValidateOTP(last'.in[1], last'.in[2], NilUUID, "verificationDelete"))
       => \E o \in ValidateOTPOutcomes(last'.in[1], last'.in[2], NilUUID, "none") :
            last'.err = o.last.err
  /\ (last'.op = "ValidateEmailToken"
        /\ ValidateEmailToken(last'.in[1], last'.in[2], "verificationDelete"))
       => \E o \in ValidateEmailTokenOutcomes(last'.in[1], last'.in[2], "none") :
            last'.err = o.last.err
  /\ (last'.op = "ValidatePhoneOTP"
        /\ ValidatePhoneOTP(last'.in[1], last'.in[2], "verificationDelete"))
       => \E o \in ValidatePhoneOTPOutcomes(last'.in[1], last'.in[2], "none") :
            last'.err = o.last.err

(* a Delete that soft-deleted the user and failed to disable one of the *)
(* user's sessions returns success                                       *)
DeleteSurvivesCascade ==
  (last'.op = "Delete" /\ Delete(last'.in[1], "sessionUpdate")) => last'.err = ErrNone

C22_ValidateHalf ==
  [][ValidateSurvivesCleanup]_vars

\* C22: a failing cleanup step never makes the primary operation return an
\* error: a Validate call whose deletion of the spent record fails still
\* succeeds, and a Delete whose cascade fails to disable one of the user's
\* sessions still succeeds once the user is soft-deleted.
C22_CleanupFailureIsNotAnError ==
  [][ValidateSurvivesCleanup /\ DeleteSurvivesCascade]_vars

(* the errors a service makes up itself, and the absence of an error *)
MadeUpErrors == {ErrNone, ErrUnauthorized, ErrNotFound, ErrConflict}

\* C23: a failure reported by a collaborator inside Login, Refresh or a
\* Validate call is returned to the caller as it is: the call does not return
\* Unauthorized, NotFound or Conflict and does not go on as if the lookup had
\* succeeded.
C23_CollaboratorFailureReturned ==
  [][/\ last'.op = "Login"
          => \A x \in UUIDInputs, f \in {"getByEmail"} :
               (/\ \A u \in users : u.username # last'.in[1]
                /\ Login(last'.in[1], last'.in[2], x, f))
                 => last'.err \notin MadeUpErrors
     /\ last'.op = "Refresh"
          => (Refresh(last'.in[1], "getByRefreshToken") => last'.err \notin MadeUpErrors)
     /\ last'.op = "ValidateOTP"
          => \A x \in UUIDInputs, f \in {"getByEmail", "verificationGet"} :
               ValidateOTP(last'.in[1], last'.in[2], x, f) => last'.err \notin MadeUpErrors
     /\ last'.op = "ValidateEmailToken"
          => (ValidateEmailToken(last'.in[1], last'.in[2], "verificationGet")
                => last'.err \notin MadeUpErrors)
     /\ last'.op = "ValidatePhoneOTP"
          => (ValidatePhoneOTP(last'.in[1], last'.in[2], "verificationGet")
                => last'.err \notin MadeUpErrors)]_vars

----------------------------------------------------------------------------
(* Claims about the credential signer *)

\* C24: Verify of a token Sign issued for (userID, deviceID, role, sessionID)
\* returns exactly those four values while the time is before the issue time
\* plus the configured number of days, and fails once that time has passed;
\* Verify fails for a malformed token, for a token signed under another key and
\* for a token whose algorithm is not an RSA one.
C24_SignVerifyRoundTrip ==
  [][last'.op = "Verify"
      => LET kind == last'.in[1]
             v == last'.in[2]
             expiry == last'.in[3] + JWTExpiryDays * 24 * 3600
             c == last'.claims
         IN /\ (kind = "signed" /\ now < expiry)
                 => /\ c.ok
                    /\ <<c.user_id, c.device_id, c.role_id, c.session_id>> = v
            /\ (kind = "signed" /\ now > expiry) => ~c.ok
            /\ kind # "signed" => ~c.ok]_vars

C24_Witness ==
  /\ last.op = "Verify"
  /\ last.in[1] = "signed"
  /\ last.claims.ok
  /\ now = last.in[3] + JWTExpiryDays * 24 * 3600 - 1
  /\ last.claims.user_id = <<"\"">>
  /\ last.claims.role_id = <<"\\", "n">>

----------------------------------------------------------------------------
(* Claims about the generated codes *)

DecimalDigits == {"0", "1", "2", "3", "4", "5", "6", "7", "8", "9"}
UpperLetters ==
  {"A", "B", "C", "D", "E", "F", "G", "H", "I", "J", "K", "L", "M", "N", "O", "P", "Q",
   "R", "S", "T", "U", "V", "W", "X", "Y", "Z"}
AmbiguousGlyphs == {"0", "1", "I", "L", "O"}

(* the symbols a generated code can hold *)
OtpSymbols == {otpChars[i] : i \in 1..Len(otpChars)}

(* a generated code has six characters, all digits or uppercase letters, *)
(* none of them an ambiguous glyph                                        *)
OtpWellFormed ==
  (last'.op = "generateOTP" /\ last'.err = ErrNone)
    => /\ Len(last'.code) = 6
       /\ \A i \in 1..Len(last'.code) :
            /\ last'.code[i] \in DecimalDigits \cup UpperLetters
            /\ last'.code[i] \notin AmbiguousGlyphs
            /\ last'.code[i] \in OtpSymbols

\* C25 as stated: every generated OTP is 6 characters long, each drawn from a
\* 32-symbol alphabet of digits and uppercase letters without 0, 1, I, L, O.
C25_OTPOver32Symbols ==
  [][OtpWellFormed /\ Cardinality(OtpSymbols) = 32]_vars

\* C25 amended: every generated OTP is 6 characters long, each drawn from the
\* 31-symbol alphabet of all digits and uppercase letters but 0, 1, I, L, O.
C25_OTPOver31Symbols ==
  [][/\ OtpWellFormed
     /\ OtpSymbols = (DecimalDigits \cup UpperLetters) \ AmbiguousGlyphs
     /\ Cardinality(OtpSymbols) = 31]_vars

C25_Witness ==
  /\ last.op = "generateOTP"
  /\ last.err = ErrNone
  /\ last.code[1] = "Z"
  /\ last.code[2] = "2"

----------------------------------------------------------------------------
(* Claims about the confirmation flags *)

ConfirmedFlag(op) ==
  IF op = "ValidateEmailToken" THEN "email_confirmed" ELSE "phone_confirmed"

----------------------------------------------------------------------------
(* Claims about calls that run at the same time *)

RefreshedTwice(r1, r2) ==
  /\ r1.g # r2.g
  /\ r1.res.op = "Refresh" /\ r2.res.op = "Refresh"
  /\ r1.res.err = ErrNone /\ r2.res.err = ErrNone
  /\ r1.res.in = r2.res.in
  /\ r1.res.refresh < r2.res.refresh

\* C27: when two Refresh calls that presented the same refresh token have both
\* returned success, they rotated the same session, each holds its own new
\* token and a bearer for that session, the token of the call that wrote first
\* matches no session, and the session holds the token written last (or one
\* that a later rotation put in its place).
C27_BothRefreshesSucceedLastWriteWins ==
  \A r1 \in done, r2 \in done :
    RefreshedTwice(r1, r2)
      => /\ r1.res.session_id = r2.res.session_id
         /\ r1.res.bearer.session_id = r1.res.session_id
         /\ SessionGetByRefreshToken(r1.res.refresh) = {}
         /\ \A s \in SessionGet(r2.res.session_id) : s.refresh_token >= r2.res.refresh

C27_Witness ==
  \E r1 \in done, r2 \in done :
    /\ RefreshedTwice(r1, r2)
    /\ SessionGetByRefreshToken(r1.res.refresh) = {}
    /\ \E s \in SessionGet(r2.res.session_id) : s.refresh_token = r2.res.refresh

ValidatedTwice(r1, r2) ==
  /\ r1.g # r2.g
  /\ r1.res.op = "ValidateOTP" /\ r2.res.op = "ValidateOTP"
  /\ r1.res.err = ErrNone /\ r2.res.err = ErrNone
  /\ r1.res.in = r2.res.in
  /\ r1.res.refresh < r2.res.refresh

MintedSession(res) ==
  \E s \in sessions :
    /\ s.session_id = res.session_id
    /\ s.user_id = res.user_id
    /\ s.enable
    /\ res.bearer.session_id = s.session_id

\* C28: when two ValidateOTP calls that submitted the one code of a recovery
\* request have both returned success, each has minted a session of its own
\* for the account: two enabled sessions with different ids and different
\* refresh tokens came out of the one code, and the record is gone.
C28_OneCodeMintsTwoSessions ==
  \A r1 \in done, r2 \in done :
    ValidatedTwice(r1, r2)
      => /\ r1.res.session_id # r2.res.session_id
         /\ MintedSession(r1.res)
         /\ MintedSession(r2.res)
         /\ r1.res.user_id = r2.res.user_id
         /\ VerificationGet(r1.res.user_id, "otp") = {}

C28_Witness ==
  \E r1 \in done, r2 \in done :
    /\ ValidatedTwice(r1, r2)
    /\ r1.res.session_id # r2.res.session_id
    /\ MintedSession(r1.res)
    /\ MintedSession(r2.res)

----------------------------------------------------------------------------
(* Claims about the bucket map under concurrent requests and sweeps *)

InCriticalSection ==
  {g \in Workers : calls[g] # Idle /\ calls[g].pc \in {"insert", "unlock", "range", "delete"}}

(* the requests that hold a bucket they looked up within the idle window *)
FreshHolders ==
  {g \in InLimit : /\ calls[g].pc \in {"unlock", "allow"}
                   /\ rlNow - calls[g].lookedAt <= IdleTimeout}

\* C29: at most one goroutine is between Lock and Unlock on the bucket map;
\* every request that looked its bucket up within the idle window holds the
\* bucket the map has for its IP (so requests of one IP share one bucket and a
\* sweep pass has not evicted it); and of the requests of one IP that looked
\* their bucket up and were answered at one instant at most Burst are admitted.
C29_MapAccessIsExclusive ==
  /\ Cardinality(InCriticalSection) <= 1
  /\ \A g \in FreshHolders :
       /\ calls[g].ip \in DOMAIN limiters
       /\ limiters[calls[g].ip].id = calls[g].id
       /\ ~calls[g].orphan
  /\ \A t \in Tallies : t.lookedAt = t.at => t.admitted <= Burst

C29_Witness ==
  \E ip \in IPs, e \in done, t \in Tallies :
    /\ \E g \in FreshHolders : calls[g].ip = ip
    /\ calls[Sweeper] # Idle
    /\ calls[Sweeper].pc \in {"range", "delete"}
    /\ e.op = "create" /\ e.ip = ip
    /\ t.ip = ip /\ t.lookedAt = e.at /\ t.at = e.at
    /\ t.admitted = Burst /\ t.served > Burst

\* C30: a sweep pass leaves in the map exactly the buckets it found whose last
\* access is not older than the idle window, each the same bucket as before,
\* so that after the pass no bucket of the map has been idle longer than the
\* window; and the bucket a request creates for an IP that has none is full and
\* is the one that request draws from.
C30_SweepEvictsExactlyTheIdle ==
  [][/\ (calls[Sweeper] # Idle /\ calls'[Sweeper] = Idle)
        => LET before == calls[Sweeper].before
               keep == {ip \in DOMAIN before : rlNow - before[ip].lastSeen <= IdleTimeout}
           IN /\ DOMAIN limiters' = keep
              /\ \A ip \in keep : limiters'[ip].id = before[ip].id
              /\ \A ip \in DOMAIN limiters' : rlNow - limiters'[ip].lastSeen <= IdleTimeout
     /\ \A g \in Goroutines :
          (calls[g] # Idle /\ calls[g].pc = "insert" /\ calls'[g].pc = "unlock")
            => /\ calls[g].ip \notin DOMAIN limiters
               /\ limiters'[calls[g].ip].tokens = Burst * RefillInterval
               /\ limiters'[calls[g].ip].lastSeen = rlNow
               /\ limiters'[calls[g].ip].id = calls'[g].id
               /\ \A i \in DOMAIN limiters : limiters[i].id # calls'[g].id]_vars

C30_Witness ==
  \E e1 \in done, e2 \in done, t \in Tallies :
    /\ e1.op = "create" /\ e2.op = "create"
    /\ e1.ip = e2.ip
    /\ e1.at < e2.at
    /\ e2.ip \in DOMAIN limiters
    /\ limiters[e2.ip].id = e2.id
    /\ t.ip = e2.ip /\ t.lookedAt = e2.at /\ t.admitted > 0

----------------------------------------------------------------------------
(* Claims about the lifetime of the cleanup goroutine *)

\* C31: once the context given at construction is cancelled the cleanup
\* goroutine eventually returns, and from then on no step removes a bucket
\* from the map.
C31_SweepEndsWithContext ==
  /\ ctx ~> (calls[Sweeper] = SweeperReturned)
  /\ [][calls[Sweeper] = SweeperReturned
         => /\ DOMAIN limiters \subseteq DOMAIN limiters'
            /\ calls'[Sweeper] = SweeperReturned]_vars

C31_Witness ==
  /\ ctx
  /\ calls[Sweeper] = SweeperReturned
  /\ \E ip \in DOMAIN limiters : stale(limiters[ip])

----------------------------------------------------------------------------
(* Claims about disabled accounts and sessions *)

MintingOps == {"Login", "LoginWithGoogle", "ValidateOTP"}

\* C32: a Login, LoginWithGoogle or password-recovery validation that returns
\* success, and so has created a session, does so for an account that is
\* enabled at that moment.
C32_NoSessionForDisabledAccount ==
  [][(last'.op \in MintingOps /\ last'.err = ErrNone)
       => \A u \in users' : u.user_id = last'.user_id => u.enable # 0]_vars

\* C33: a Refresh that returns an error leaves the sessions table as it was,
\* so that the presented token still finds its session with the expiry it
\* had; the stored token changes only in calls that return the new one.
C33_RefreshAllOrNothing ==
  [][last'.op = "Refresh"
       => /\ last'.err # ErrNone => sessions' = sessions
          /\ sessions' # sessions
               => /\ last'.err = ErrNone
                  /\ \E x \in sessions' : x.refresh_token = last'.refresh]_vars

\* C34: a request whose bearer, not yet expired, names a session that has been
\* disabled is rejected by the Auth middleware with 401 and does not reach the
\* wrapped handler.
C34_DisabledSessionBearerRejected ==
  [][(/\ last'.op = "Auth"
      /\ now < last'.in[1].exp
      /\ \E s \in sessions : s.session_id = last'.in[1].session_id /\ ~s.enable)
       => last'.err = ErrUnauthorized]_vars

(* the accounts a Delete has soft-deleted: SoftDelete leaves the boolean *)
Deleted == {u.user_id : u \in {x \in users : x.enable_av = "BOOL"}}

\* C35: once Delete has returned success for a user, none of that user's
\* sessions is enabled, whatever calls for that user were under way when the
\* Delete ran.
C35_NoEnabledSessionAfterDelete ==
  \A s \in sessions : s.user_id \in Deleted => ~s.enable

\* C36: once the stored external subject of a user is non-empty, no step
\* changes it, whatever the interleaving of LoginWithGoogle calls.
C36_LinkedSubjectNeverChanges ==
  [][\A u \in users : u.google_sub # ""
        => \E v \in users' : v.user_id = u.user_id /\ v.google_sub = u.google_sub]_vars

\* C37: no two user records share a username, and no two share an email,
\* in every state reached by interleaved RegisterWithSession and
\* LoginWithGoogle calls.
C37_UsernameAndEmailUnique ==
  \A u, v \in users :
    u.user_id # v.user_id => u.username # v.username /\ u.email # v.email

\* C38: in every state at most one device record carries a given UUID.
C38_OneDevicePerUUID ==
  \A d1, d2 \in devices : d1.uuid = d2.uuid => d1.device_id = d2.device_id

\* C39: for every session, the device it references is owned by the
\* session's user.
C39_SessionDeviceOwnedByUser ==
  \A s \in sessions : \A d \in devices :
    d.device_id = s.device_id => d.user_id = s.user_id

(* the requests of ip admitted at the instants from t1 to t2 *)
RECURSIVE SumAdmitted(_)
SumAdmitted(ts) ==
  IF ts = {} THEN 0
  ELSE LET t == CHOOSE x \in ts : TRUE IN t.admitted + SumAdmitted(ts \ {t})
AdmittedIn(ip, t1, t2) ==
  SumAdmitted({t \in Tallies : t.ip = ip /\ t1 <= t.at /\ t.at <= t2})

\* C40: for every IP and every interval [t1, t2], the requests of that IP
\* admitted in the interval number at most Burst + rate * (t2 - t1), also
\* when the sweep has evicted the bucket and a later request recreated it
\* (counted in milliseconds of refill: one request is RefillInterval).
C40_EvictionKeepsBucketBound ==
  \A ip \in IPs : \A x, y \in {t \in Tallies : t.ip = ip} :
    x.at <= y.at =>
      AdmittedIn(ip, x.at, y.at) * RefillInterval
        <= Burst * RefillInterval + (y.at - x.at)

====
